---- MODULE Spec2Model ----
(***************************************************************************)
(* ESP-PLC bridge: the Raspberry Pi communicator (PLCCommunicator, its     *)
(* polling thread and the web request handlers), the ESP-32 bridge         *)
(* (ESP32PLCBridge.poll_plc_data) and the two script engines.              *)
(*                                                                         *)
(* Python dictionaries are objects on a heap: plc_status holds references  *)
(* to its nested dictionaries, so that dict.copy() (a shallow copy) and    *)
(* the sharing it leaves are part of the model.                            *)
(***************************************************************************)
EXTENDS Integers, Sequences, FiniteSets, TLC

(* ------------------------------ bounds -------------------------------- *)

\* Number of poll cycles explored.
MaxPolls == 2

\* Number of scripts the registry is constructed with (4 on the Pi, 3 on
\* the ESP-32 in the code).
NumDefaults == 2

\* Number of script ids in use: the defaults and those a request creates.
MaxScripts == 3

\* Number of batches of enabled scripts explored.
MaxBatches == 1

\* Number of registry requests (create, update, delete, toggle) explored.
MaxRequests == 2

\* Number of requests that enable or disable a script, and of batches,
\* explored for a script that is disabled and re-enabled.
ResumeRequests == 3
ResumeBatches == 2

\* Number of cycles of the polling loop, and of registry requests next to
\* it, explored.
LoopPolls == 1
LoopRequests == 1

\* Number of web threads that serve an execute-one-script-now request.
NumExecs == 1

\* Number of web threads that write while the polling loop runs its batch.
CbWriters == 1

\* Largest count of a ModbusRTU read whose well-formed response is decoded
\* for every sequence of values: of booleans and of registers.
MaxBitCount == 9
MaxRegCount == 2

\* Largest count of a ModbusRTU read over a line that corrupts responses.
MaxFaultBits == 4
MaxFaultRegs == 1

\* Number of polls followed byte by byte.
FramePolls == 1

\* Number of poll cycles explored next to the concurrent writers.
LockPolls == 1

\* Number of concurrent web request handler threads (Flask workers).
NumHandlers == 2

\* Number of concurrent consumers of get_status (handlers of /api/status,
\* the polling loop handing a snapshot to the scripts).
NumReaders == 1

\* Size of a signal group (16 coils, 16 inputs, 10 registers in the code).
GroupLen == 2

(* ------------------------------ state --------------------------------- *)

VARIABLES
    platform,          \* "pi" (RaspberryPi/) or "esp" (ESP32_Files/)
    clock,             \* time.time()
    started,           \* PLCWebBridge.start() has called connect()
    simulation_mode,   \* PLCCommunicator.simulation_mode
    connected,         \* PLCCommunicator.connected
    client,            \* PLCCommunicator.client: "none", "open" or "closed"
    connection_lock,   \* PLCCommunicator.connection_lock: Free or its holder
    plc_status,        \* PLCCommunicator.plc_status (references into heap)
    last_update,       \* PLCCommunicator.last_update (0 is None)
    connret,           \* what the last call of connect() returned
    heap,              \* the nested dictionaries, by reference
    modbus,            \* ESP32PLCBridge.modbus is not None
    plc_data,          \* ESP32PLCBridge.plc_data (references into heap)
    script_engine,     \* ESP32PLCBridge.script_engine is not None
    rtu,               \* a ModbusRTU read: its arguments, frames and result
    pollpc,            \* where the polling thread is inside poll_data
    pollgrp,           \* which group read of the poll is next (1..3)
    pollNo,            \* polls started so far
    pollBudget,        \* polls explored
    plan,              \* what the PLC answers to each group read of this poll
    pre,               \* the snapshot when this poll was called
    pollret,           \* what the poll returned
    inflight,          \* threads with a transport exchange in progress
    hpc,               \* where each write request handler is
    hret,              \* what the handler's write call returned
    rpc,               \* where each status consumer is
    handed,            \* the snapshot get_status handed to the consumer
    scripts,           \* the registry: ScriptEngine.scripts, in insertion order
    script_states,     \* ScriptEngine.script_states: each id's store (0: none)
    stores,            \* the state dictionaries created, by reference
    deleting,          \* ids a delete request has removed from scripts only
    enabled_scripts,   \* ESP32ScriptEngine.enabled_scripts
    bpc,               \* where the batch of enabled scripts is
    it,                \* the batch's iterator over scripts.items()
    cur,               \* the script the batch is executing (0: none)
    results,           \* the batch's results, by script id
    ran,               \* what running each script did in this batch
    atStart,           \* the scripts enabled when the batch started
    deleted,           \* the scripts deleted since the batch started
    batchNo,           \* batches started so far
    batchBudget,       \* batches explored
    reqNo,             \* registry requests served so far
    reqBudget,         \* registry requests explored
    xpc,               \* where each thread is inside execute_script
    xid,               \* the script id execute_script was called with
    xst,               \* the state dictionary the execution holds (0: none)
    xgot,              \* what the execution found in it when it began
    wpc,               \* where each executing thread is inside a write callback
    resume,            \* each script's disabling and re-enabling, as observed
    running,           \* PLCWebBridge.running / ESP32PLCBridge.running
    mpc,               \* where the main thread is in start() and stop()
    lpc,               \* where the polling loop is ("none": no polling task)
    cycle,             \* the loop's cycle: its poll's result, its batches
    script_results,    \* PLCCommunicator.script_results: the batch stored (0: none)
    pin_states,        \* GPIOController.pin_states, by pin
    lastset,           \* the value each pin was last given, by set_pin or setup_pin
    gcall,             \* the last call on the executor or its GPIO, and its result
    snaps,             \* what the last two calls of get_status returned
    twin,              \* a second communicator, in simulation mode
    creating           \* where each create request is, and what it carries

commVars == <<started, simulation_mode, connected, client, connection_lock,
              plc_status, last_update, connret>>
espVars == <<modbus, plc_data, script_engine, rtu>>
pollVars == <<pollpc, pollgrp, pollNo, pollBudget, plan, pre, pollret>>
handlerVars == <<hpc, hret, rpc, handed>>
execVars == <<xpc, xid, xst, xgot, wpc>>
gpioVars == <<pin_states, lastset, gcall>>
auxVars == <<snaps, twin, creating>>
scriptVars == <<scripts, script_states, stores, deleting, enabled_scripts,
                bpc, it, cur, results, ran, atStart, deleted, batchNo, reqNo,
                batchBudget, reqBudget, execVars, resume>>
loopVars == <<running, mpc, lpc, cycle, script_results>>
vars == <<platform, clock, heap, commVars, espVars, gpioVars, auxVars, pollVars, inflight,
          handlerVars, scriptVars, loopVars>>

(* --------------------------- the data model --------------------------- *)

Groups == {"coil_status", "input_status", "data_registers"}

\* A group read is answered by data, by an error response (isError() on the
\* Pi, a frame the ESP reader rejects), or the transport raises.
Outcomes == {"ok", "error", "raise"}

Handlers == 1..NumHandlers

Readers == 1..NumReaders

NoReturn == [ok |-> FALSE, message |-> "none"]

Poller == 0

\* threading.Lock: the thread that holds it, or Free.
Free == -1

\* Dictionary keys: 'Y000', 'X000', 'DS001' are <<"Y", 0>>, <<"X", 0>>,
\* <<"DS", 1>>; the ESP's integer keys i+1 are <<"#", i+1>>.
Key(prefix, i) == <<prefix, i>>

EmptyDict == << >>

\* What the PLC holds during poll n: every coil and input is (n odd), every
\* register is n.
PlcBits(n) == [i \in 0..(GroupLen - 1) |-> (n % 2 = 1)]
PlcRegisters(n) == [i \in 0..(GroupLen - 1) |-> n]

\* plc_communication.py 158-160, 165-167, 172-174: the dictionaries the Pi
\* builds from a result.
PiCoilDict(bits) == [k \in {Key("Y", i) : i \in DOMAIN bits} |-> bits[k[2]]]
PiInputDict(bits) == [k \in {Key("X", i) : i \in DOMAIN bits} |-> bits[k[2]]]
PiRegisterDict(regs) ==
    [k \in {Key("DS", i + 1) : i \in DOMAIN regs} |-> regs[k[2] - 1]]

PiDecoded(g, n) ==
    CASE g = "coil_status" -> PiCoilDict(PlcBits(n))
      [] g = "input_status" -> PiInputDict(PlcBits(n))
      [] g = "data_registers" -> PiRegisterDict(PlcRegisters(n))

\* Addresses of the nested dictionaries allocated at construction.
SysInfoRef == 1
InitRef(g) ==
    CASE g = "data_registers" -> 2
      [] g = "coil_status" -> 3
      [] g = "input_status" -> 4

SystemInfo == (Key("plc_model", 0) :> "AutomationDirect CLICK")

InitHeap == <<SystemInfo, EmptyDict, EmptyDict, EmptyDict>>

\* plc_communication.py 38-51
InitPlcStatus ==
    [connected |-> FALSE,
     last_update |-> 0,
     communication_errors |-> 0,
     data_registers |-> InitRef("data_registers"),
     coil_status |-> InitRef("coil_status"),
     input_status |-> InitRef("input_status"),
     system_info |-> SysInfoRef,
     data_age_seconds |-> -1,
     data_fresh |-> "absent"]


NoPlan == [g \in Groups |-> "none"]

\* No snapshot handed out yet.
NoSnapshot == [connected |-> FALSE]

(* --------------------------- ESP-32 data model ------------------------ *)

\* main.py 336-341, 347-352, 357-362: the dictionaries the ESP builds from a
\* decoded list (a Python list is indexed from 0).
EspStatusDict(prefix, bits) ==
    [k \in {Key(prefix, i) : i \in DOMAIN bits} |-> bits[k[2]]]
EspNumberedDict_from_zero(bits) ==
    [k \in {Key("#", i) : i \in DOMAIN bits} |-> bits[k[2]]]
EspNumberedDict(bits) ==
    [k \in {Key("#", i + 1) : i \in DOMAIN bits} |-> bits[k[2] - 1]]
EspRegisterDict(regs) ==
    [k \in {Key("DS", i + 1) : i \in DOMAIN regs}
            \cup {Key("#", i + 1) : i \in DOMAIN regs} |-> regs[k[2] - 1]]

\* The plc_data fields each group read fills.
EspFields(g) ==
    CASE g = "input_status" -> {"input_status", "digital_inputs"}
      [] g = "coil_status" -> {"coil_status", "digital_outputs"}
      [] g = "data_registers" -> {"data_registers"}

EspDecoded(f, n) ==
    CASE f = "input_status" -> EspStatusDict("X", PlcBits(n))
      [] f = "digital_inputs" -> EspNumberedDict(PlcBits(n))
      [] f = "coil_status" -> EspStatusDict("Y", PlcBits(n))
      [] f = "digital_outputs" -> EspNumberedDict(PlcBits(n))
      [] f = "data_registers" -> EspRegisterDict(PlcRegisters(n))

EspAllFields ==
    {"digital_inputs", "digital_outputs", "input_status", "coil_status",
     "data_registers"}

EspInitRef(f) ==
    CASE f = "digital_inputs" -> 2
      [] f = "digital_outputs" -> 3
      [] f = "input_status" -> 4
      [] f = "coil_status" -> 5
      [] f = "data_registers" -> 6

EspSystemInfo == (Key("device", 0) :> "ESP-32 PLC Bridge")

EspInitHeap ==
    <<EspSystemInfo, EmptyDict, EmptyDict, EmptyDict, EmptyDict, EmptyDict>>

\* main.py 168-184
InitPlcData ==
    [connected |-> FALSE,
     last_update |-> 0,
     communication_errors |-> 0,
     digital_inputs |-> EspInitRef("digital_inputs"),
     digital_outputs |-> EspInitRef("digital_outputs"),
     input_status |-> EspInitRef("input_status"),
     coil_status |-> EspInitRef("coil_status"),
     data_registers |-> EspInitRef("data_registers"),
     system_info |-> SysInfoRef,
     script_results |-> 0]

\* The live snapshot of whichever platform runs.
Live == IF platform = "pi" THEN plc_status ELSE plc_data

LiveFields == IF platform = "pi" THEN Groups ELSE EspAllFields

\* What a poll remembers of the snapshot it was called on.
PreOf(st) ==
    [fields |-> [f \in LiveFields |-> heap[st[f]]],
     last_update |-> st.last_update,
     communication_errors |-> st.communication_errors]

NoPre == [fields |-> EmptyDict, last_update |-> 0, communication_errors |-> 0]

(* ------------------------- the script registry ----------------------- *)

ScriptIds == 1..MaxScripts

\* What running a script's code does: it returns, or it raises.
Behaviours == {"ok", "raise"}

\* custom_scripts.py (Pi) 38-145: load_default_scripts; every default is
\* disabled.
PiDefaultScripts ==
    [i \in 1..NumDefaults |-> [id |-> i, live |-> TRUE, enabled |-> FALSE]]

\* custom_scripts.py (ESP) 76-140: load_default_scripts; the first default,
\* status_led, is enabled.
EspDefaultScripts ==
    [i \in 1..NumDefaults |-> [id |-> i, live |-> TRUE, enabled |-> (i = 1)]]

NoIterator == [pos |-> 0, used |-> 0, len |-> 0]

NoResults == << >>

NotRun == [id \in ScriptIds |-> "none"]

\* The threads that call execute_script: the polling thread for the batch,
\* and the web server's threads that serve /api/scripts/<id>/execute.
Executors == {Poller} \cup (1..NumExecs)

\* ScriptEngine.script_states = {} (custom_scripts.py 21)
NoStates == [id \in ScriptIds |-> 0]

\* The execution has not begun to run the script's code.
NotBegun == -1

\* A cycle of the polling loop that has not polled; prev: how the cycle
\* before it ended.
NoCycle == [poll |-> "none", batches |-> 0, prev |-> "none"]

\* Nothing observed of a script: it was not disabled while it had a state.
NoResume == [phase |-> "no", saved |-> 0, got |-> 0, busy |-> FALSE]

(* --------------------------- GPIOController --------------------------- *)

\* custom_scripts.py (Pi) 45, 95: the pins the default scripts are bound
\* to.
PIN_OUTPUT == 18
PIN_TIMER == 19

Pins == {PIN_OUTPUT, PIN_TIMER}

\* custom_scripts.py (Pi) 152: self.pin_states = {}.  A pin that is not in
\* the dictionary is a record with cfg false.
NoPin == [cfg |-> FALSE, mode |-> "none", value |-> FALSE]
NoPins == [p \in Pins |-> NoPin]

\* No pin has been given a value.
NoSets == [p \in Pins |-> [touched |-> FALSE, value |-> FALSE]]

\* custom_scripts.py (Pi) 160-169, without physical GPIO
\* (gpio_available false): a configured pin starts at False.
setup_pin(ps, pin, mode) ==
    [ps EXCEPT ![pin] = [cfg |-> TRUE, mode |-> mode, value |-> FALSE]]

\* custom_scripts.py (Pi) 171-180
set_pin_configures_only(ps, pin, value) ==
    IF ~ps[pin].cfg THEN setup_pin(ps, pin, "output") ELSE ps

set_pin(ps, pin, value) ==
    LET configured == IF ~ps[pin].cfg THEN setup_pin(ps, pin, "output")
                      ELSE ps
    IN [configured EXCEPT ![pin].value = value]

\* custom_scripts.py (Pi) 182-190
get_pin(ps, pin) == IF ~ps[pin].cfg THEN FALSE ELSE ps[pin].value

\* custom_scripts.py (Pi) 238-242: the pins of a script are configured
\* when they are not in pin_states yet.
RECURSIVE setup_pins_always(_, _)
setup_pins_always(ps, pins) ==
    IF pins = {} THEN ps
    ELSE LET pin == CHOOSE q \in pins : TRUE
         IN setup_pins_always(setup_pin(ps, pin, "output"), pins \ {pin})

RECURSIVE setup_pins(_, _)
setup_pins(ps, pins) ==
    IF pins = {} THEN ps
    ELSE LET pin == CHOOSE q \in pins : TRUE
         IN setup_pins(IF ~ps[pin].cfg THEN setup_pin(ps, pin, "output")
                       ELSE ps,
                       pins \ {pin})

\* No call has been made on the executor.
NoCall ==
    [op |-> "none", id |-> 0, enabled |-> FALSE,
     ret |-> [kind |-> "none", status |-> "none", error |-> FALSE],
     saw |-> FALSE, write |-> NoReturn, truthy |-> FALSE,
     did |-> "none", pin |-> 0, got |-> FALSE]

\* No call of get_status has returned yet.
NoShot == [status |-> NoSnapshot, polls |-> 0, quiet |-> FALSE, at |-> 0]
NoSnaps == [n |-> 0, prev |-> NoShot, last |-> NoShot]

\* plc_communication.py 35-53: a communicator as constructed, its
\* simulation counter and its groups.
NoTwin == [counter |-> 0, groups |-> [g \in Groups |-> EmptyDict]]

\* No create request is being served.
NoCreate == [pc |-> "idle", id |-> 0, enabled |-> FALSE, answer |-> 0]
NoCreates == [h \in Handlers |-> NoCreate]

(* ------------------------------ ModbusRTU ----------------------------- *)

\* Python's integer operators on non-negative integers.
RECURSIVE Pow2(_)
Pow2(n) == IF n = 0 THEN 1 ELSE 2 * Pow2(n - 1)

\* (v >> i) & 1
BitAt(v, i) == (v \div Pow2(i)) % 2

\* a ^ b
RECURSIVE Xor(_, _)
Xor(a, b) ==
    IF a = 0 THEN b
    ELSE IF b = 0 THEN a
    ELSE 2 * Xor(a \div 2, b \div 2) + ((a + b) % 2)

Min(a, b) == IF a <= b THEN a ELSE b

\* main.py (ESP) 51-56: the eight shift steps of one byte.
RECURSIVE crc16_shift_unreflected(_, _)
crc16_shift_unreflected(crc, n) ==
    IF n = 0 THEN crc
    ELSE IF crc % 2 = 1
    THEN crc16_shift_unreflected(Xor(crc \div 2, 32773), n - 1)
    ELSE crc16_shift_unreflected(crc \div 2, n - 1)

RECURSIVE crc16_shift(_, _)
crc16_shift(crc, n) ==
    IF n = 0 THEN crc
    ELSE IF crc % 2 = 1
    THEN crc16_shift(Xor(crc \div 2, 40961), n - 1)
    ELSE crc16_shift(crc \div 2, n - 1)

\* main.py (ESP) 49-56: the loop over the bytes, from byte i on.
RECURSIVE crc16_from(_, _, _)
crc16_from(crc, data, i) ==
    IF i > Len(data) THEN crc
    ELSE crc16_from(crc16_shift(Xor(crc, data[i]), 8), data, i + 1)

\* main.py (ESP) 46-57: ModbusRTU.crc16.
crc16(data) == crc16_from(65535, data, 1)

\* int.to_bytes(2, 'big') and int.to_bytes(2, 'little') of a 16-bit value.
BigEndian(v) == <<v \div 256, v % 256>>
LittleEndian(v) == <<v % 256, v \div 256>>

\* main.py (ESP) 59-67: ModbusRTU.build_request.
build_request(slave_id, function_code, start_addr, count) ==
    LET request == <<slave_id, function_code>> \o BigEndian(start_addr)
                      \o BigEndian(count)
    IN request \o LittleEndian(crc16(request))

\* What a read returns: None, or its list (of booleans or of registers).
ReadNone == [none |-> TRUE, bits |-> << >>, regs |-> << >>]

\* main.py (ESP) 75-88 and 99-112: the decoding of read_coils and of
\* read_discrete_inputs, which differ in the function code only.  response
\* is what uart.read() returned (empty: None or no byte).
read_bits_msb_first(slave_id, function_code, count, response) ==
    IF /\ Len(response) >= 5
       /\ response[1] = slave_id
       /\ response[2] = function_code
    THEN LET byte_count == response[3]
             data_bytes == SubSeq(response, 4,
                                  Min(3 + byte_count, Len(response)))
             all == [j \in 1..(8 * Len(data_bytes)) |->
                        BitAt(data_bytes[((j - 1) \div 8) + 1],
                              7 - ((j - 1) % 8)) = 1]
         IN [none |-> FALSE,
             bits |-> SubSeq(all, 1, Min(count, Len(all))),
             regs |-> << >>]
    ELSE ReadNone

read_bits(slave_id, function_code, count, response) ==
    IF /\ Len(response) >= 5
       /\ response[1] = slave_id
       /\ response[2] = function_code
    THEN LET byte_count == response[3]
             data_bytes == SubSeq(response, 4,
                                  Min(3 + byte_count, Len(response)))
             all == [j \in 1..(8 * Len(data_bytes)) |->
                        BitAt(data_bytes[((j - 1) \div 8) + 1],
                              (j - 1) % 8) = 1]
         IN [none |-> FALSE,
             bits |-> SubSeq(all, 1, Min(count, Len(all))),
             regs |-> << >>]
    ELSE ReadNone

\* main.py (ESP) 69-91.
read_coils(slave_id, count, response) ==
    read_bits(slave_id, 1, count, response)

\* main.py (ESP) 93-115.
read_discrete_inputs(slave_id, count, response) ==
    read_bits(slave_id, 2, count, response)

\* main.py (ESP) 117-137: the registers are read two bytes at a time, as
\* many as the response's byte count declares.
read_holding_registers(slave_id, count, response) ==
    IF /\ Len(response) >= 5
       /\ response[1] = slave_id
       /\ response[2] = 3
       /\ Len(response) >= 3 + response[3] + 2
    THEN LET byte_count == response[3]
         IN [none |-> FALSE,
             bits |-> << >>,
             regs |-> [k \in 1..((byte_count + 1) \div 2) |->
                         256 * response[2 + 2 * k] + response[3 + 2 * k]]]
    ELSE ReadNone

\* The read of function code fn.
read(fn, slave_id, count, response) ==
    CASE fn = 1 -> read_coils(slave_id, count, response)
      [] fn = 2 -> read_discrete_inputs(slave_id, count, response)
      [] fn = 3 -> read_holding_registers(slave_id, count, response)

(* -------------------- the device at the other end --------------------- *)

\* The Modbus CRC-16 in its bit-serial form: a 16-bit shift register
\* (position 1 is the least significant bit), all ones at the start; each
\* message bit, least significant first within its byte, is compared with
\* the bit shifted out, and the polynomial 0xA001 (bits 0, 13 and 15) is
\* added when they differ.
PolyBits == [i \in 1..16 |-> i \in {1, 14, 16}]

RefShift(reg) == Tail(reg) \o <<FALSE>>

RefAdd(reg) == [i \in 1..16 |-> reg[i] # PolyBits[i]]

\* The register after bits j..7 of a byte.
RECURSIVE RefBits(_, _, _)
RefBits(reg, byte, j) ==
    IF j > 7 THEN reg
    ELSE IF reg[1] # (BitAt(byte, j) = 1)
    THEN RefBits(RefAdd(RefShift(reg)), byte, j + 1)
    ELSE RefBits(RefShift(reg), byte, j + 1)

\* The register after the bytes from byte i on.
RECURSIVE RefBytes(_, _, _)
RefBytes(reg, data, i) ==
    IF i > Len(data) THEN reg
    ELSE LET next == RefBits(reg, data[i], 0)
         IN IF next[1] THEN RefBytes(next, data, i + 1)
            ELSE RefBytes(next, data, i + 1)

RECURSIVE RegValue(_, _)
RegValue(reg, i) ==
    IF i > 16 THEN 0
    ELSE (IF reg[i] THEN Pow2(i - 1) ELSE 0) + RegValue(reg, i + 1)

RefCrc(data) == RegValue(RefBytes([i \in 1..16 |-> TRUE], data, 1), 1)

\* The payload of a function-1/2 response: the booleans packed eight to a
\* byte, least significant bit first.
RECURSIVE PackByte(_, _, _)
PackByte(bits, k, i) ==
    IF i > 7 THEN 0
    ELSE (IF 8 * k + i + 1 <= Len(bits) /\ bits[8 * k + i + 1]
          THEN Pow2(i) ELSE 0) + PackByte(bits, k, i + 1)

PackBits(bits) ==
    [k \in 1..((Len(bits) + 7) \div 8) |-> PackByte(bits, k - 1, 0)]

\* The payload of a function-3 response: each value as two bytes, the high
\* byte first.
PackRegs(regs) ==
    [j \in 1..(2 * Len(regs)) |->
        IF j % 2 = 1 THEN regs[(j + 1) \div 2] \div 256
        ELSE regs[j \div 2] % 256]

\* The well-formed response to a read: slave id, function code, byte
\* count, payload, and the CRC of all that, low byte first.
GoodResponse(slave_id, fn, bits, regs) ==
    LET payload == IF fn = 3 THEN PackRegs(regs) ELSE PackBits(bits)
        body == <<slave_id, fn, Len(payload)>> \o payload
        crc == RefCrc(body)
    IN body \o <<crc % 256, crc \div 256>>

\* What the line delivers of the well-formed response.
LineKinds == {"good", "badcrc", "short", "slave", "fn", "silent"}

Delivered(kind, good) ==
    CASE kind = "good" -> good
      [] kind = "badcrc" ->
           [good EXCEPT ![Len(good)] = (@ + 1) % 256]
      [] kind = "short" -> SubSeq(good, 1, Len(good) - 1)
      [] kind = "slave" ->
           LET body == [SubSeq(good, 1, Len(good) - 2) EXCEPT ![1] = @ + 1]
           IN body \o LittleEndian(RefCrc(body))
      [] kind = "fn" ->
           LET body == [SubSeq(good, 1, Len(good) - 2) EXCEPT
                           ![2] = (@ % 3) + 1]
           IN body \o LittleEndian(RefCrc(body))
      [] kind = "silent" -> << >>

\* No read in progress.
NoRtu ==
    [pc |-> "none", fn |-> 0, slave |-> 0, start |-> 0, count |-> 0,
     bits |-> << >>, regs |-> << >>, kind |-> "none", request |-> << >>,
     response |-> << >>, out |-> ReadNone]

\* main.py (ESP) 334, 345: the bridge reads 16 inputs and 16 coils.
BitsPerPoll == 16

\* Sequences of c booleans with a pattern: all true, alternating from true
\* and from false, and only the last one true.
Patterns(c) ==
    {[i \in 1..c |-> TRUE], [i \in 1..c |-> i % 2 = 1],
     [i \in 1..c |-> i % 2 = 0], [i \in 1..c |-> i = c]}

\* The reads of count values explored: every sequence of up to maxbits
\* booleans and the patterns of up to 16 for function codes 1 and 2, every
\* sequence of the register values for 3.
RegValues == {0, 1, 255, 256, 41394, 65535}

RtuInputs(maxbits, maxregs, kinds, slaves, starts) ==
    {[NoRtu EXCEPT !.pc = "idle", !.fn = f, !.slave = s, !.start = a,
                   !.count = Len(b), !.bits = b, !.kind = k] :
        f \in {1, 2}, s \in slaves, a \in starts, k \in kinds,
        b \in UNION {[1..c -> BOOLEAN] : c \in 1..maxbits}
              \cup UNION {Patterns(c) : c \in 1..BitsPerPoll}}
    \cup
    {[NoRtu EXCEPT !.pc = "idle", !.fn = 3, !.slave = s, !.start = a,
                   !.count = Len(r), !.regs = r, !.kind = k] :
        s \in slaves, a \in starts, k \in kinds,
        r \in UNION {[1..c -> RegValues] : c \in 1..maxregs}}

\* main.py (ESP) 71-73, 95-97, 119-121: the request is built and written
\* to the UART.
rtu_write ==
    /\ rtu.pc = "idle"
    /\ rtu' = [rtu EXCEPT
                 !.pc = "sent",
                 !.request = build_request(rtu.slave, rtu.fn, rtu.start,
                                           rtu.count)]
    /\ UNCHANGED <<platform, loopVars, scriptVars, clock, heap, commVars,
                   modbus, plc_data, script_engine, gpioVars, auxVars, pollVars,
                   inflight, handlerVars>>

\* main.py (ESP) 75-91, 99-115, 123-137: uart.read() and the decoding of
\* what it returned.
rtu_read ==
    /\ rtu.pc = "sent"
    /\ LET response == Delivered(rtu.kind,
                          GoodResponse(rtu.slave, rtu.fn, rtu.bits, rtu.regs))
       IN rtu' = [rtu EXCEPT
                    !.pc = "done",
                    !.response = response,
                    !.out = read(rtu.fn, rtu.slave, rtu.count, response)]
    /\ UNCHANGED <<platform, loopVars, scriptVars, clock, heap, commVars,
                   modbus, plc_data, script_engine, gpioVars, auxVars, pollVars,
                   inflight, handlerVars>>

(* ------------------------------ Init ---------------------------------- *)

\* plc_communication.py 27-51 and main.py (ESP) 142-195: the state after
\* construction.  SIMULATION_MODE comes from the environment (config.py 39);
\* the ESP's UART may fail to initialise (main.py 162-165), and its script
\* engine exists when custom_scripts imports and constructs (186-193).
InitBase(polls, batches, requests) ==
    /\ platform \in {"pi", "esp"}
    /\ pollBudget = polls
    /\ batchBudget = batches
    /\ reqBudget = requests
    /\ clock = 1
    /\ started = FALSE
    /\ simulation_mode \in (IF platform = "pi" THEN BOOLEAN ELSE {FALSE})
    /\ connected = FALSE
    /\ client = "none"
    /\ connection_lock = Free
    /\ plc_status = InitPlcStatus
    /\ last_update = 0
    /\ connret = "none"
    /\ heap = (IF platform = "pi" THEN InitHeap ELSE EspInitHeap)
    /\ modbus \in (IF platform = "esp" THEN BOOLEAN ELSE {FALSE})
    /\ plc_data = InitPlcData
    /\ script_engine \in (IF platform = "esp" THEN BOOLEAN ELSE {FALSE})
    /\ pollpc = "idle"
    /\ pollgrp = 1
    /\ pollNo = 0
    /\ plan = NoPlan
    /\ pre = NoPre
    /\ pollret = "pending"
    /\ inflight = {}
    /\ hpc = [h \in Handlers |-> "idle"]
    /\ hret = [h \in Handlers |-> NoReturn]
    /\ rpc = [r \in Readers |-> "idle"]
    /\ handed = [r \in Readers |-> NoSnapshot]
    /\ scripts = (IF platform = "pi" THEN PiDefaultScripts
                  ELSE EspDefaultScripts)
    /\ script_states = NoStates
    /\ stores = << >>
    /\ deleting = {}
    /\ enabled_scripts =
          (IF platform = "esp"
           THEN {EspDefaultScripts[i].id :
                    i \in {j \in 1..NumDefaults : EspDefaultScripts[j].enabled}}
           ELSE {})
    /\ bpc = "idle"
    /\ it = NoIterator
    /\ cur = 0
    /\ results = NoResults
    /\ ran = NotRun
    /\ atStart = {}
    /\ deleted = {}
    /\ batchNo = 0
    /\ reqNo = 0
    /\ xpc = [t \in Executors |-> "idle"]
    /\ xid = [t \in Executors |-> 0]
    /\ xst = [t \in Executors |-> 0]
    /\ xgot = [t \in Executors |-> NotBegun]
    /\ wpc = [t \in Executors |-> "none"]
    /\ resume = [id \in ScriptIds |-> NoResume]
    /\ running = FALSE
    /\ mpc = "new"
    /\ lpc = "none"
    /\ cycle = NoCycle
    /\ script_results = 0
    /\ pin_states = NoPins
    /\ lastset = NoSets
    /\ gcall = NoCall
    /\ snaps = NoSnaps
    /\ twin = NoTwin
    /\ creating = NoCreates

\* No ModbusRTU read is followed on its own: the reads are part of the
\* polls.
InitOf(polls, batches, requests) ==
    InitBase(polls, batches, requests) /\ rtu = NoRtu

InitWith(polls) == InitOf(polls, MaxBatches, MaxRequests)

Init == InitWith(MaxPolls)

\* Time passes.
Tick ==
    /\ clock < MaxPolls + 1
    /\ clock' = clock + 1
    /\ UNCHANGED <<platform, loopVars, scriptVars, heap, commVars, espVars, gpioVars, auxVars, pollVars, inflight, handlerVars>>

(* ---------------------- PLCCommunicator.connect ----------------------- *)

\* plc_communication.py 55-109: what a call of connect() does to the
\* communicator and what it returns.  how: what the environment does to the
\* call: the Modbus library is missing (62-64), the client is created and
\* its connect() answers true or false (87-96), or an exception is raised,
\* before or after the new client is stored (71, 87, 105-109).
connect_body_opens(how) ==
    CASE how = "unavailable" ->
           /\ client = "none"
           /\ connret' = "False"
           /\ UNCHANGED <<connected, plc_status, client>>
      [] how = "open_ok" ->
           /\ client' = "open"
           /\ connected' = TRUE
           /\ plc_status' = [plc_status EXCEPT !.connected = TRUE]
           /\ connret' = "True"
      [] how = "open_fail" ->
           /\ client' = "closed"
           /\ connected' = FALSE
           /\ connret' = "False"
           /\ UNCHANGED plc_status
      [] how = "exception" ->
           /\ client' \in {client, "closed"}
           /\ connected' = FALSE
           /\ plc_status' = [plc_status EXCEPT !.connected = FALSE]
           /\ connret' = "False"

connect_body(how) ==
    IF simulation_mode
    THEN /\ how = "open_ok"
         /\ connected' = TRUE
         /\ plc_status' = [plc_status EXCEPT !.connected = TRUE]
         /\ connret' = "True"
         /\ UNCHANGED client
    ELSE CASE how = "unavailable" ->
                /\ client = "none"
                /\ connret' = "False"
                /\ UNCHANGED <<connected, plc_status, client>>
           [] how = "open_ok" ->
                /\ client' = "open"
                /\ connected' = TRUE
                /\ plc_status' = [plc_status EXCEPT !.connected = TRUE]
                /\ connret' = "True"
           [] how = "open_fail" ->
                /\ client' = "closed"
                /\ connected' = FALSE
                /\ connret' = "False"
                /\ UNCHANGED plc_status
           [] how = "exception" ->
                /\ client' \in {client, "closed"}
                /\ connected' = FALSE
                /\ plc_status' = [plc_status EXCEPT !.connected = FALSE]
                /\ connret' = "False"

\* plc_communication.py 53-109.  Called once by PLCWebBridge.start()
\* (main.py 70) before the polling thread and the web server exist, so the
\* whole call, its test read under the lock included, is one step.
\* how: what the environment does to the call.
connect(how) ==
    /\ platform = "pi"
    /\ ~started
    /\ started' = TRUE
    /\ connect_body(how)
    /\ UNCHANGED <<platform, loopVars, scriptVars, clock, simulation_mode, connection_lock,
                   last_update, heap, espVars, gpioVars, auxVars, pollVars, inflight, handlerVars>>

\* plc_communication.py 53-109: connect() called again on a communicator
\* that has been connected or disconnected before.  Outside simulation
\* mode the call waits for the lock (65) and a new client replaces the old
\* one (67-74).
connect_again(how) ==
    /\ platform = "pi"
    /\ started
    /\ simulation_mode \/ how = "unavailable" \/ connection_lock = Free
    /\ connect_body(how)
    /\ UNCHANGED <<platform, loopVars, scriptVars, clock, started,
                   simulation_mode, connection_lock, last_update, heap,
                   espVars, gpioVars, auxVars, pollVars, inflight, handlerVars>>

ConnectOutcomes == {"unavailable", "open_ok", "open_fail", "exception"}

Connect == \E how \in ConnectOutcomes : connect(how)

(* ------------------- binding a nested dictionary ---------------------- *)

\* The fields of a snapshot that hold a nested dictionary.
Nested == Groups \cup EspAllFields \cup {"system_info"}

\* The consumer has the dictionary get_status returned.
Holds(r) == rpc[r] \in {"has", "modified"}

\* Some snapshot handed out refers to the dictionary at ref.
Held(ref) ==
    \E r \in Readers :
        /\ Holds(r)
        /\ \E f \in Nested \cap DOMAIN handed[r] : handed[r][f] = ref

\* st[f] = d for a dictionary d built beforehand: the key is rebound in one
\* store.  The dictionary it held is freed, and its place on the heap taken
\* by d, unless a snapshot handed out still refers to it.
Store(hs, f, d) ==
    IF Held(hs.st[f])
    THEN [heap |-> Append(hs.heap, d),
          st |-> [hs.st EXCEPT ![f] = Len(hs.heap) + 1]]
    ELSE [heap |-> [hs.heap EXCEPT ![hs.st[f]] = d], st |-> hs.st]

\* The assignments st[fs[i]] = ds[i], in order.
RECURSIVE StoreAll(_, _, _)
StoreAll(hs, fs, ds) ==
    IF fs = << >> THEN hs
    ELSE StoreAll(Store(hs, Head(fs), Head(ds)), Tail(fs), Tail(ds))

(* --------------------- PLCCommunicator.poll_data ---------------------- *)

PiOrder == <<"coil_status", "input_status", "data_registers">>

\* A group is bound before it is filled: the dictionary stored holds only
\* the entries decoded so far.
PiStoreGroup_unfilled(g, d) ==
    LET new == Store([heap |-> heap, st |-> plc_status], g,
                     [k \in {x \in DOMAIN d : x[2] < 1} |-> d[k]])
    IN /\ heap' = new.heap
       /\ plc_status' = new.st

\* plc_communication.py 158, 165, 172: a group of plc_status is rebound to
\* a dictionary built beforehand.
PiStoreGroup(g, d) ==
    LET new == Store([heap |-> heap, st |-> plc_status], g, d)
    IN /\ heap' = new.heap
       /\ plc_status' = new.st

\* plc_communication.py 191-252: _simulate_plc_data.  r is the random draw.
SimDict(g, n, r) ==
    CASE g = "input_status" ->
            PiInputDict([i \in 0..(GroupLen - 1) |->
                IF i < GroupLen \div 2 THEN (n \div (i + 2)) % 2 = 0 ELSE r])
      [] g = "coil_status" ->
            PiCoilDict([i \in 0..(GroupLen - 1) |->
                IF i < GroupLen \div 2 THEN (n \div (i + 2)) % 2 = 0 ELSE r])
      [] g = "data_registers" ->
            PiRegisterDict([i \in 0..(GroupLen - 1) |->
                IF i = 0 THEN n % 1000 ELSE IF r THEN 1 ELSE 0])

_simulate_plc_data(r) ==
    LET order == <<"input_status", "coil_status", "data_registers">>
        new == StoreAll([heap |-> heap, st |-> plc_status], order,
                        [i \in 1..3 |-> SimDict(order[i], pollNo + 1, r)])
    IN /\ heap' = new.heap
       /\ plc_status' = [new.st EXCEPT !.last_update = clock]
       /\ last_update' = clock

\* plc_communication.py 138-150: the checks before the lock.
poll_data_call ==
    /\ platform = "pi"
    /\ started
    /\ pollpc = "idle"
    /\ pollNo < pollBudget
    /\ pollNo' = pollNo + 1
    /\ pre' = PreOf(plc_status)
    /\ plan' = NoPlan
    /\ pollgrp' = 1
    /\ IF ~connected
       THEN /\ pollpc' = "returned"
            /\ pollret' = "False"
            /\ UNCHANGED <<plc_status, last_update, heap>>
       ELSE IF simulation_mode
       THEN /\ \E r \in BOOLEAN : _simulate_plc_data(r)
            /\ pollpc' = "returned"
            /\ pollret' = "True"
       ELSE IF client = "none"
       THEN /\ pollpc' = "returned"
            /\ pollret' = "False"
            /\ UNCHANGED <<plc_status, last_update, heap>>
       ELSE /\ pollpc' = "lock"
            /\ pollret' = "pending"
            /\ UNCHANGED <<plc_status, last_update, heap>>
    /\ UNCHANGED <<platform, loopVars, scriptVars, clock, started, simulation_mode, connected,
                   client, connection_lock, espVars, gpioVars, auxVars, pollBudget, inflight,
                   handlerVars, connret>>

\* plc_communication.py 153: with self.connection_lock.
poll_data_acquire ==
    /\ pollpc = "lock"
    /\ connection_lock = Free
    /\ connection_lock' = Poller
    /\ pollpc' = "read"
    /\ UNCHANGED <<platform, loopVars, scriptVars, clock, started, simulation_mode, connected,
                   client, plc_status, last_update, heap, espVars, gpioVars, auxVars, pollgrp,
                   pollNo, pollBudget, plan, pre, pollret, inflight,
                   handlerVars, connret>>

\* plc_communication.py 156, 163, 170: the request of a group read is sent.
poll_data_request ==
    /\ pollpc = "read"
    /\ pollpc' = "exchange"
    /\ inflight' = inflight \cup {Poller}
    /\ UNCHANGED <<platform, loopVars, scriptVars, clock, heap, commVars, espVars, gpioVars, auxVars,
                   pollgrp, pollNo, pollBudget, plan, pre, pollret,
                   handlerVars>>

\* plc_communication.py 156-174, 183-189: the response of a group read.
\* o: what the PLC and the line answer.
poll_data_response(o) ==
    /\ pollpc = "exchange"
    /\ inflight' = inflight \ {Poller}
    /\ LET g == PiOrder[pollgrp]
           next == IF pollgrp < 3 THEN "read" ELSE "stamp"
       IN /\ plan' = [plan EXCEPT ![g] = o]
          /\ CASE o = "ok" ->
                 /\ PiStoreGroup(g, PiDecoded(g, pollNo))
                 /\ pollpc' = next
                 /\ pollgrp' = IF pollgrp < 3 THEN pollgrp + 1 ELSE pollgrp
                 /\ UNCHANGED <<connection_lock, pollret>>
            [] o = "error" ->
                 /\ pollpc' = next
                 /\ pollgrp' = IF pollgrp < 3 THEN pollgrp + 1 ELSE pollgrp
                 /\ UNCHANGED <<connection_lock, pollret, heap, plc_status>>
            [] o = "raise" ->
                 /\ connection_lock' = Free
                 /\ plc_status' = [plc_status EXCEPT
                        !.communication_errors = @ + 1]
                 /\ pollret' = "False"
                 /\ pollpc' = "returned"
                 /\ UNCHANGED <<heap, pollgrp>>
    /\ UNCHANGED <<platform, loopVars, scriptVars, clock, started, simulation_mode,
                   connected, client, last_update, espVars, gpioVars, auxVars, pollNo,
                   pollBudget, pre, handlerVars, connret>>

\* plc_communication.py 176-181: the time stamp, the lock's release, True.
poll_data_stamp_keeps_lock ==
    /\ pollpc = "stamp"
    /\ plc_status' = [plc_status EXCEPT !.last_update = clock]
    /\ last_update' = clock
    /\ pollret' = "True"
    /\ pollpc' = "returned"
    /\ UNCHANGED <<platform, loopVars, scriptVars, clock, started,
                   simulation_mode, connected, client, connection_lock, heap,
                   espVars, gpioVars, auxVars, pollgrp, pollNo, pollBudget, plan, pre, inflight,
                   handlerVars, connret>>

poll_data_stamp ==
    /\ pollpc = "stamp"
    /\ plc_status' = [plc_status EXCEPT !.last_update = clock]
    /\ last_update' = clock
    /\ connection_lock' = Free
    /\ pollret' = "True"
    /\ pollpc' = "returned"
    /\ UNCHANGED <<platform, loopVars, scriptVars, clock, started, simulation_mode, connected,
                   client, heap, espVars, gpioVars, auxVars, pollgrp, pollNo, pollBudget, plan, pre,
                   inflight, handlerVars, connret>>

\* plc_communication.py 181, 189: poll_data has returned; its caller has
\* the result and the next call may follow.  The polling loop goes on to
\* get_status when the result is True and to its sleep otherwise (main.py
\* 112-123).
poll_data_return ==
    /\ platform = "pi"
    /\ pollpc = "returned"
    /\ pollpc' = "idle"
    /\ plan' = NoPlan
    /\ pre' = NoPre
    /\ pollret' = "pending"
    /\ IF lpc = "poll"
       THEN /\ lpc' = IF pollret = "True" THEN "status" ELSE "sleep"
            /\ cycle' = [cycle EXCEPT !.poll = pollret]
       ELSE UNCHANGED <<lpc, cycle>>
    /\ UNCHANGED <<platform, running, mpc, scriptVars, clock, heap, commVars, espVars, gpioVars, auxVars, pollgrp, pollNo, pollBudget,
                   inflight, handlerVars,
                   script_results>>

(* ------------- ESP32ScriptEngine.execute_enabled_scripts -------------- *)

\* The slots of the dictionary that hold an entry.
LiveSlots == {i \in 1..Len(scripts) : scripts[i].live}

\* script_id in self.engine.scripts
Has(id) == \E i \in LiveSlots : scripts[i].id = id

SlotOf(id) == CHOOSE i \in LiveSlots : scripts[i].id = id

\* len(self.engine.scripts)
Size == Cardinality(LiveSlots)

Enabled(id) == Has(id) /\ scripts[SlotOf(id)].enabled

\* No batch of scripts is in progress.
Quiet == bpc \in {"idle", "done", "raised"}

\* custom_scripts.py (ESP) 147-177: the result execute_script builds.
EspEntry(id, o) ==
    [script_id |-> id,
     success |-> (o = "ok"),
     error |-> IF o = "ok" THEN "None" ELSE "str(e)",
     execution_time |-> 0]

\* custom_scripts.py (ESP) 182-183: the scripts a batch executes.
EspRunSet == {id \in enabled_scripts : Has(id)}

\* custom_scripts.py (ESP) 179-195: every script of a copy of
\* enabled_scripts that is in the registry is executed.  The engine runs on
\* the one cooperative loop, so a batch is one step.  o: what each script's
\* code does.
EspRunBatch(o) ==
    /\ batchNo' = batchNo + 1
    /\ results' = [id \in EspRunSet |-> EspEntry(id, o[id])]
    /\ ran' = [id \in ScriptIds |-> IF id \in EspRunSet THEN o[id] ELSE "none"]
    /\ atStart' = enabled_scripts
    /\ deleted' = {}
    /\ bpc' = "done"
    /\ UNCHANGED <<scripts, script_states, stores, deleting, enabled_scripts,
                   it, cur, reqNo, batchBudget, reqBudget, execVars, resume>>

\* A call of the engine on its own (custom_scripts.py (ESP) 254-272).
execute_enabled_scripts(o) ==
    /\ platform = "esp"
    /\ Quiet
    /\ batchNo < batchBudget
    /\ EspRunBatch(o)
    /\ UNCHANGED <<platform, loopVars, clock, heap, commVars, espVars, gpioVars, auxVars, pollVars,
                   inflight, handlerVars, wpc>>

(* ------------------- ESP32PLCBridge.poll_plc_data --------------------- *)

\* main.py 69-137: read_discrete_inputs, read_coils and
\* read_holding_registers catch every exception and return None, as they do
\* for a frame they reject.
EspRead(outcome) == IF outcome = "ok" THEN "list" ELSE "None"

\* A list a read returned, as Python indexes it (from 0).
ZeroBased(list) == [i \in 0..(Len(list) - 1) |-> list[i + 1]]

\* main.py 335, 346, 357: "if inputs:", true of a list that is not empty.
Truthy(v) == ~v.none /\ Len(v.bits) + Len(v.regs) > 0

\* The list of GroupLen values the PLC of poll n answers to a group read.
ListOf(g, n) ==
    IF g = "data_registers"
    THEN [none |-> FALSE, bits |-> << >>, regs |-> [i \in 1..GroupLen |-> n]]
    ELSE [none |-> FALSE, bits |-> [i \in 1..GroupLen |-> (n % 2 = 1)],
          regs |-> << >>]

\* main.py 336-341, 347-352, 358-363: the dictionaries built from what a
\* read returned.
EspDecodedOf(f, inputs, coils, registers) ==
    CASE f = "input_status" -> EspStatusDict("X", ZeroBased(inputs.bits))
      [] f = "digital_inputs" -> EspNumberedDict(ZeroBased(inputs.bits))
      [] f = "coil_status" -> EspStatusDict("Y", ZeroBased(coils.bits))
      [] f = "digital_outputs" -> EspNumberedDict(ZeroBased(coils.bits))
      [] f = "data_registers" -> EspRegisterDict(ZeroBased(registers.regs))

\* main.py 327-384.  The bridge runs on one cooperative uasyncio loop and
\* poll_plc_data never awaits, so a poll is one step.  inputs, coils,
\* registers: what the three reads returned; p: the PLC's answers; o: what
\* the code of each script does.
poll_plc_data_with(inputs, coils, registers, p, o) ==
    /\ platform = "esp"
    /\ pollpc = "idle"
    /\ pollNo < pollBudget
    /\ pollNo' = pollNo + 1
    /\ pre' = PreOf(plc_data)
    /\ pollpc' = "returned"
    /\ IF ~modbus
       THEN /\ plan' = NoPlan
            /\ pollret' = "False"
            /\ cycle' = IF lpc = "poll" THEN [cycle EXCEPT !.poll = "False"]
                         ELSE cycle
            /\ UNCHANGED <<plc_data, heap, scriptVars>>
       ELSE LET n == pollNo + 1
                got == {g \in Groups :
                           CASE g = "input_status" -> Truthy(inputs)
                             [] g = "coil_status" -> Truthy(coils)
                             [] g = "data_registers" -> Truthy(registers)}
                stored == UNION {EspFields(g) : g \in got}
                order == <<"digital_inputs", "digital_outputs",
                           "input_status", "coil_status", "data_registers">>
                new == SelectSeq(order, LAMBDA f : f \in stored)
                bound == StoreAll([heap |-> heap, st |-> plc_data], new,
                                  [i \in 1..Len(new) |->
                                      EspDecodedOf(new[i], inputs, coils,
                                                   registers)])
                \* 367-372: the scripts run when the inputs were read
                batch == script_engine /\ "input_status" \in got
            IN /\ plan' = p
               /\ heap' = bound.heap
               /\ IF batch THEN EspRunBatch(o) ELSE UNCHANGED scriptVars
               /\ plc_data' =
                    [f \in DOMAIN plc_data |->
                        IF f \in stored THEN bound.st[f]
                        ELSE IF f = "connected"
                        THEN ("input_status" \in got) \/ plc_data.connected
                        ELSE IF f = "last_update" THEN clock
                        ELSE IF f = "communication_errors"
                        THEN plc_data[f] + (IF got = {} THEN 1 ELSE 0)
                        ELSE IF f = "script_results" /\ batch
                        THEN batchNo + 1
                        ELSE plc_data[f]]
               /\ pollret' = IF got # {} THEN "True" ELSE "False"
               /\ cycle' =
                    IF lpc = "poll"
                    THEN [cycle EXCEPT
                             !.poll = IF got # {} THEN "True" ELSE "False",
                             !.batches = @ + (IF batch THEN 1 ELSE 0)]
                    ELSE cycle
    /\ UNCHANGED <<platform, running, mpc, lpc, clock, commVars, modbus, script_engine, gpioVars, auxVars, pollgrp,
                   pollBudget, inflight, handlerVars,
                   script_results, wpc, rtu>>

\* A poll whose reads return the list of poll n or None.
poll_plc_data(p, o) ==
    LET list(g) == IF EspRead(p[g]) = "list"
                   THEN ListOf(g, pollNo + 1) ELSE ReadNone
    IN poll_plc_data_with(list("input_status"), list("coil_status"),
                          list("data_registers"), p, o)

\* config.py (ESP) 24.
DEVICE_ADDRESS == 1

\* main.py 356: the bridge reads 10 holding registers.
RegsPerPoll == 10

\* main.py 334, 345, 356: the function code and the count of each read.
FnOf(g) ==
    CASE g = "input_status" -> 2
      [] g = "coil_status" -> 1
      [] g = "data_registers" -> 3

CountOf(g) == IF g = "data_registers" THEN RegsPerPoll ELSE BitsPerPoll

\* What the device holds during poll n: the inputs alternate, from true on
\* odd polls; every third coil is set; register i holds 257 * i + n.
DeviceBits(g, n) ==
    IF g = "input_status" THEN [i \in 1..BitsPerPoll |-> (i + n) % 2 = 0]
    ELSE IF g = "coil_status" THEN [i \in 1..BitsPerPoll |-> i % 3 = n % 3]
    ELSE << >>

DeviceRegs(g, n) ==
    IF g = "data_registers" THEN [i \in 1..RegsPerPoll |-> 257 * i + n]
    ELSE << >>

\* What the line delivers to a read of the poll: the well-formed response,
\* a well-formed response that carries only the first half of the values
\* asked for, the response with a wrong CRC, or nothing.
FrameKinds == {"good", "fewer", "badcrc", "silent"}

Answer(g, kind, n) ==
    LET bits == DeviceBits(g, n)
        regs == DeviceRegs(g, n)
        half == CountOf(g) \div 2
    IN IF kind = "fewer"
       THEN GoodResponse(DEVICE_ADDRESS, FnOf(g),
                         SubSeq(bits, 1, Min(half, Len(bits))),
                         SubSeq(regs, 1, Min(half, Len(regs))))
       ELSE Delivered(kind, GoodResponse(DEVICE_ADDRESS, FnOf(g), bits, regs))

\* main.py 334, 345, 356 with the reads of main.py 69-137: what each read
\* of poll n returns for each thing the line may deliver, tabulated.
FrameReads ==
    {<<g, k, n, read(FnOf(g), DEVICE_ADDRESS, CountOf(g), Answer(g, k, n))>> :
        g \in Groups, k \in FrameKinds, n \in 1..FramePolls}

ReadOf(g, k, n) ==
    (CHOOSE t \in FrameReads : t[1] = g /\ t[2] = k /\ t[3] = n)[4]

\* main.py 327-384: a poll whose three reads decode the bytes the line
\* delivers.  k: what the line delivers to each read.
poll_plc_data_frames(k, o) ==
    LET list(g) == ReadOf(g, k[g], pollNo + 1)
    IN poll_plc_data_with(list("input_status"), list("coil_status"),
                          list("data_registers"), k, o)

EspPollFrames ==
    \E k \in [Groups -> FrameKinds] : \E o \in [EspRunSet -> Behaviours] :
        poll_plc_data_frames(k, o)

EspPoll ==
    \E p \in [Groups -> Outcomes] : \E o \in [EspRunSet -> Behaviours] :
        poll_plc_data(p, o)

\* main.py 821-830: plc_polling_task has polled and sleeps.
EspPollReturn ==
    /\ platform = "esp"
    /\ pollpc = "returned"
    /\ pollpc' = "idle"
    /\ plan' = NoPlan
    /\ pre' = NoPre
    /\ pollret' = "pending"
    /\ lpc' = IF lpc = "poll" THEN "sleep" ELSE lpc
    /\ UNCHANGED <<platform, running, mpc, cycle, scriptVars, clock, heap, commVars, espVars, gpioVars, auxVars, pollgrp, pollNo, pollBudget,
                   inflight, handlerVars,
                   script_results>>


(* ------------- PLCCommunicator.write_coil / write_register ------------ *)

NotConnected == [ok |-> FALSE, message |-> "PLC not connected"]

write_call_unchecked(h) ==
    /\ platform = "pi"
    /\ started
    /\ hpc[h] = "idle"
    /\ hpc' = [hpc EXCEPT ![h] = "lock"]
    /\ UNCHANGED <<platform, loopVars, scriptVars, clock, heap, commVars, espVars, gpioVars, auxVars, pollVars,
                   inflight, hret, rpc, handed>>

\* plc_communication.py 266-267, 284-285: the check before the lock.  The
\* two methods differ only in the client method they call.
write_call(h) ==
    /\ platform = "pi"
    /\ started
    /\ hpc[h] = "idle"
    /\ IF ~connected \/ client = "none"
       THEN /\ hpc' = [hpc EXCEPT ![h] = "done"]
            /\ hret' = [hret EXCEPT ![h] = NotConnected]
       ELSE /\ hpc' = [hpc EXCEPT ![h] = "lock"]
            /\ UNCHANGED hret
    /\ UNCHANGED <<platform, loopVars, scriptVars, clock, heap, commVars, espVars, gpioVars, auxVars, pollVars,
                   inflight, rpc, handed>>

\* api_write_coil (web_server.py 51-75) and the scripts' callback
\* (custom_scripts.py 212-218).
write_coil(h) == write_call(h)

\* api_write_register (web_server.py 77-101) and the scripts' callback
\* (custom_scripts.py 220-226).
write_register(h) == write_call(h)

write_acquire_unlocked(h) ==
    /\ hpc[h] = "lock"
    /\ hpc' = [hpc EXCEPT ![h] = "exchange"]
    /\ inflight' = inflight \cup {h}
    /\ UNCHANGED <<platform, loopVars, scriptVars, clock, heap, commVars, espVars, gpioVars, auxVars, pollVars, hret,
                   rpc, handed>>

\* plc_communication.py 270-271, 288-289: with self.connection_lock, then
\* the request is sent.
write_acquire(h) ==
    /\ hpc[h] = "lock"
    /\ connection_lock = Free
    /\ connection_lock' = h
    /\ hpc' = [hpc EXCEPT ![h] = "exchange"]
    /\ inflight' = inflight \cup {h}
    /\ UNCHANGED <<platform, loopVars, scriptVars, clock, heap, started, simulation_mode, connected,
                   client, plc_status, last_update, espVars, gpioVars, auxVars, pollVars, hret,
                   rpc, handed, connret>>

\* plc_communication.py 271-280, 289-298: the response, the lock's release
\* and the returned pair.
write_response(h) ==
    /\ hpc[h] = "exchange"
    /\ connection_lock' = Free
    /\ inflight' = inflight \ {h}
    /\ hpc' = [hpc EXCEPT ![h] = "done"]
    /\ \E o \in Outcomes :
          hret' = [hret EXCEPT ![h] =
                      CASE o = "ok" -> [ok |-> TRUE, message |-> "Success"]
                        [] o = "error" -> [ok |-> FALSE, message |-> "str(result)"]
                        [] o = "raise" -> [ok |-> FALSE, message |-> "str(e)"]]
    /\ UNCHANGED <<platform, loopVars, scriptVars, clock, heap, started, simulation_mode, connected,
                   client, plc_status, last_update, espVars, gpioVars, auxVars, pollVars, rpc,
                   handed, connret>>

(* --------------------- PLCCommunicator.disconnect --------------------- *)

\* A disconnect that starts the error count afresh.
disconnect_resets_errors ==
    /\ platform = "pi"
    /\ started
    /\ connection_lock = Free
    /\ client # "none" /\ connected
    /\ client' = "closed"
    /\ connected' = FALSE
    /\ plc_status' = [plc_status EXCEPT !.connected = FALSE,
                                        !.communication_errors = 0]
    /\ UNCHANGED <<platform, loopVars, scriptVars, clock, heap, started, simulation_mode,
                   connection_lock, last_update, espVars, gpioVars, auxVars, pollVars, inflight,
                   handlerVars, connret>>

\* plc_communication.py 111-121, called by PLCWebBridge.stop (main.py 96)
\* from the signal handler while the other threads run.
disconnect ==
    /\ platform = "pi"
    /\ started
    /\ connection_lock = Free
    /\ client # "none" /\ connected
    /\ client' = "closed"
    /\ connected' = FALSE
    /\ plc_status' = [plc_status EXCEPT !.connected = FALSE]
    /\ UNCHANGED <<platform, loopVars, scriptVars, clock, heap, started, simulation_mode,
                   connection_lock, last_update, espVars, gpioVars, auxVars, pollVars, inflight,
                   handlerVars, connret>>

(* ------------- the transport: polling thread and writers -------------- *)

NextLock ==
    \/ Connect
    \/ poll_data_call
    \/ poll_data_acquire
    \/ poll_data_request
    \/ \E o \in Outcomes : poll_data_response(o)
    \/ poll_data_stamp
    \/ poll_data_return
    \/ \E h \in Handlers : write_coil(h)
    \/ \E h \in Handlers : write_register(h)
    \/ \E h \in Handlers : write_acquire(h)
    \/ \E h \in Handlers : write_response(h)
    \/ disconnect

InitLock == InitWith(LockPolls) /\ platform = "pi"

SpecLock == InitLock /\ [][NextLock]_vars

\* C1: at no time are two transport exchanges in progress at once: a
\* write_coil/write_register exchange never overlaps a group read exchange
\* of poll_data, nor another write.
C1_OneExchangeAtATime == Cardinality(inflight) <= 1

\* A writer waits for the lock while the poll's exchange is in progress.
C1_Witness ==
    /\ Poller \in inflight
    /\ \E h \in Handlers : hpc[h] = "lock"

\* C6: write_coil and write_register fail closed: a call made while the
\* communicator is not connected returns (false, message) at once, performs
\* no transport exchange and leaves the snapshot, the connection state and
\* the lock unchanged.
C6_WriteFailsClosed ==
    [][\A h \in Handlers :
          (hpc[h] = "idle" /\ hpc'[h] # "idle" /\ ~connected) =>
              /\ hpc'[h] = "done"
              /\ hret'[h].ok = FALSE
              /\ hret'[h].message = "PLC not connected"
              /\ inflight' = inflight
              /\ UNCHANGED <<plc_status, heap, last_update, connected,
                             client, connection_lock>>]_vars

\* A write was refused on a communicator that has a client but is not
\* connected.
C6_Witness ==
    /\ ~connected
    /\ client # "none"
    /\ \E h \in Handlers : hpc[h] = "done" /\ hret[h] = NotConnected

(* ------------------- the polling task on its own ---------------------- *)

NextPoll ==
    \/ Tick
    \/ Connect
    \/ poll_data_call
    \/ poll_data_acquire
    \/ poll_data_request
    \/ \E o \in Outcomes : poll_data_response(o)
    \/ poll_data_stamp
    \/ poll_data_return
    \/ EspPoll
    \/ EspPollReturn

SpecPoll == Init /\ [][NextPoll]_vars

(* ----------------- claims about one poll (C2 - C5) -------------------- *)

\* The snapshot fields a group read fills, on the platform that runs.
FieldsOf(g) == IF platform = "pi" THEN {g} ELSE EspFields(g)

Decoded(f, n) == IF platform = "pi" THEN PiDecoded(f, n) ELSE EspDecoded(f, n)

\* A poll that reached its group reads has returned.
PollReturned == pollpc = "returned" /\ plan # NoPlan

\* The group reads the poll performed.
Performed(g) == plan[g] # "none"

ReadSucceeded(g) == Performed(g) /\ plan[g] = "ok"

ReadFailed(g) == Performed(g) /\ plan[g] # "ok"

\* C2: group failures in one poll are independent: whichever group read
\* failed and in whatever way (error response, null decode or raised
\* exception), every group is still read; a group whose read failed holds
\* what it held before the poll and a group whose read succeeded holds the
\* data of this poll.
C2_GroupFailuresIndependent ==
    PollReturned =>
        \A g \in Groups :
            /\ Performed(g)
            /\ \A f \in FieldsOf(g) :
                  IF plan[g] = "ok"
                  THEN heap[Live[f]] = Decoded(f, pollNo)
                  ELSE heap[Live[f]] = pre.fields[f]

\* C3: after a poll in which at least one group read failed,
\* communication_errors is strictly greater than before the poll.
C3_FailedGroupCountsAnError ==
    (PollReturned /\ \E g \in Groups : ReadFailed(g)) =>
        Live.communication_errors > pre.communication_errors

\* C4: a poll on a connected real transport returns true if and only if at
\* least one of its three group reads succeeded.
C4_TrueIffSomeGroupSucceeded ==
    PollReturned =>
        (pollret = "True" <=> \E g \in Groups : ReadSucceeded(g))

\* C5: after a poll that returned false, last_update equals its value
\* before the poll.
C5_LastUpdateOnlyOnTrue ==
    (pollpc = "returned" /\ pollret = "False") =>
        /\ Live.last_update = pre.last_update
        /\ platform = "pi" => last_update = pre.last_update

(* ---------------------- PLCCommunicator.get_status -------------------- *)

\* config.py 33: POLL_INTERVAL, in ticks of the clock.
POLL_INTERVAL == 1

\* plc_communication.py 257-260: the age fields are stored into the live
\* plc_status.
get_status_age(r) ==
    /\ platform = "pi"
    /\ started
    /\ rpc[r] = "idle"
    /\ rpc' = [rpc EXCEPT ![r] = "copy"]
    /\ IF last_update # 0
       THEN plc_status' =
                [plc_status EXCEPT
                    !.data_age_seconds = clock - last_update,
                    !.data_fresh = IF clock - last_update < POLL_INTERVAL * 2
                                   THEN "True" ELSE "False"]
       ELSE UNCHANGED plc_status
    /\ UNCHANGED <<platform, loopVars, scriptVars, clock, heap, started, simulation_mode, connected,
                   client, connection_lock, last_update, espVars, gpioVars, auxVars, pollVars,
                   inflight, hpc, hret, handed, connret>>

\* plc_communication.py 262: return self.plc_status.copy().  dict.copy() is
\* one call of the interpreter and copies the top level only: the caller's
\* dictionary holds the same nested dictionaries as plc_status.
get_status_copy(r) ==
    /\ rpc[r] = "copy"
    /\ rpc' = [rpc EXCEPT ![r] = "has"]
    /\ handed' = [handed EXCEPT ![r] = plc_status]
    /\ UNCHANGED <<platform, loopVars, scriptVars, clock, heap, commVars, espVars, gpioVars, auxVars, pollVars,
                   inflight, hpc, hret>>

EspNested ==
    <<"system_info", "digital_inputs", "digital_outputs", "input_status",
      "coil_status", "data_registers">>

\* main.py (ESP) 713-727: /api/status serialises the live plc_data with
\* ujson.dumps in one run of the handler; the consumer gets the text, which
\* shares nothing with plc_data.
api_status(r) ==
    /\ platform = "esp"
    /\ rpc[r] = "idle"
    /\ rpc' = [rpc EXCEPT ![r] = "has"]
    /\ heap' = heap \o [i \in 1..Len(EspNested) |-> heap[plc_data[EspNested[i]]]]
    /\ handed' = [handed EXCEPT ![r] =
                    [f \in DOMAIN plc_data |->
                        IF f \in Nested
                        THEN Len(heap) + CHOOSE i \in 1..Len(EspNested) :
                                             EspNested[i] = f
                        ELSE plc_data[f]]]
    /\ UNCHANGED <<platform, loopVars, scriptVars, clock, commVars, espVars, gpioVars, auxVars, pollVars, inflight,
                   hpc, hret>>

(* ------------------------ what a consumer may do ---------------------- *)

\* The entry a consumer assigns in a nested dictionary of its snapshot.
TamperKey(f) ==
    CASE f = "coil_status" -> Key("Y", 0)
      [] f = "input_status" -> Key("X", 0)
      [] f = "data_registers" -> Key("DS", 1)
      [] f \in {"digital_inputs", "digital_outputs"} -> Key("#", 1)
      [] f = "system_info" -> Key("plc_model", 0)

Tamper(f, d) ==
    LET k0 == TamperKey(f)
        v == CASE f = "data_registers" -> 65535
               [] f = "system_info" -> "edited"
               [] OTHER -> IF k0 \in DOMAIN d THEN ~d[k0] ELSE TRUE
    IN [k \in (DOMAIN d) \cup {k0} |-> IF k = k0 THEN v ELSE d[k]]

\* custom_scripts.py 271: a script is handed the snapshot as plc_data and
\* runs its own code on it, e.g. plc_data['coil_status']['Y000'] = v.
consumer_modify(r, f) ==
    /\ rpc[r] = "has"
    /\ f \in DOMAIN handed[r]
    /\ rpc' = [rpc EXCEPT ![r] = "modified"]
    /\ heap' = [heap EXCEPT ![handed[r][f]] = Tamper(f, @)]
    /\ UNCHANGED <<platform, loopVars, scriptVars, clock, commVars, espVars, gpioVars, auxVars, pollVars, inflight,
                   hpc, hret, handed>>

\* The same for a top-level entry, e.g. plc_data['connected'] = v.
consumer_modify_top(r) ==
    /\ rpc[r] = "has"
    /\ rpc' = [rpc EXCEPT ![r] = "modified"]
    /\ handed' = [handed EXCEPT ![r].connected = ~@]
    /\ UNCHANGED <<platform, loopVars, scriptVars, clock, heap, commVars, espVars, gpioVars, auxVars, pollVars,
                   inflight, hpc, hret>>

(* ------------------- snapshots and their consumers -------------------- *)

\* Number of poll cycles explored next to the consumers of snapshots.
SnapPolls == 2

\* The consumers are alike: they are numbered in the order of their calls.
Turn(r) == \A q \in Readers : q < r => rpc[q] # "idle"

NextTorn ==
    \/ Connect
    \/ poll_data_call
    \/ poll_data_acquire
    \/ poll_data_request
    \/ \E o \in Outcomes : poll_data_response(o)
    \/ poll_data_stamp
    \/ poll_data_return
    \/ EspPoll
    \/ EspPollReturn
    \/ \E r \in Readers : Turn(r) /\ get_status_age(r)
    \/ \E r \in Readers : get_status_copy(r)
    \/ \E r \in Readers : Turn(r) /\ api_status(r)

NextSnap ==
    \/ NextTorn
    \/ \E r \in Readers : \E f \in Nested : consumer_modify(r, f)
    \/ \E r \in Readers : consumer_modify_top(r)

InitSnap == InitWith(SnapPolls)

\* Consumers that only read their snapshot (api_status, the stock scripts).
SpecTorn == InitSnap /\ [][NextTorn]_vars

\* Consumers that may also assign into their snapshot.
SpecSnap == InitSnap /\ [][NextSnap]_vars

\* What a snapshot shows, nested dictionaries included.
DeepOf(st, hp) == [f \in DOMAIN st |-> IF f \in Nested THEN hp[st[f]] ELSE st[f]]

LiveDeep == DeepOf(Live, heap)

HandedDeep(r) == DeepOf(handed[r], heap)

\* C7: the snapshot get_status returns is independent of the live one:
\* get_status itself does not modify the live snapshot; a modification a
\* consumer makes to its snapshot (nested group mappings and system_info
\* included) changes neither the live snapshot nor a snapshot returned to
\* another caller; no step of a poll changes a snapshot already handed out.
C7_SnapshotIndependent ==
    [][/\ \A r \in Readers :
            (rpc[r] \in {"idle", "copy"} /\ rpc'[r] # rpc[r]) =>
                LiveDeep' = LiveDeep
       /\ \A r \in Readers :
            (rpc[r] = "has" /\ rpc'[r] = "modified") =>
                /\ LiveDeep' = LiveDeep
                /\ \A o \in Readers \ {r} :
                      Holds(o) => HandedDeep(o)' = HandedDeep(o)
       /\ (pollpc' # pollpc \/ pollgrp' # pollgrp) =>
            \A r \in Readers : Holds(r) => HandedDeep(r)' = HandedDeep(r)]_vars

\* d is what one whole read of group field f decodes to, in one of the
\* polls so far, or the empty dictionary the field holds before its first
\* read.
WholeRead(f, d) ==
    \/ d = EmptyDict
    \/ \E n \in 1..pollNo : d = Decoded(f, n)
    \/ /\ simulation_mode
       /\ \E n \in 1..pollNo : \E b \in BOOLEAN : d = SimDict(f, n, b)

\* C8: consumers never observe a torn group: whenever get_status (or the
\* ESP's /api/status) interleaves with a poll, every group of the snapshot
\* it returned is in its entirety the decoded result of one read of that
\* group, never a partially filled mapping or a mix of two reads.
C8_NoTornGroup ==
    \A r \in Readers :
        rpc[r] = "has" =>
            \A f \in LiveFields : WholeRead(f, heap[handed[r][f]])

\* A snapshot was taken in the middle of the second poll, between the
\* group reads: its coils are of this poll, its inputs of the poll before.
C8_Witness ==
    /\ platform = "pi"
    /\ pollNo = 2
    /\ pollpc \in {"read", "exchange"}
    /\ \E r \in Readers :
          /\ rpc[r] = "has"
          /\ heap[handed[r].coil_status] = PiDecoded("coil_status", 2)
          /\ heap[handed[r].input_status] = PiDecoded("input_status", 1)

(* ------------------ the registry and its requests (Pi) ---------------- *)

\* What a registry request leaves alone.
otherScriptVars == <<stores, enabled_scripts, bpc, it, cur, results, ran,
                     atStart, batchNo, batchBudget, reqBudget, execVars>>

\* A call of execute_script for the script has passed the enabled test and
\* has not returned.
InCall(id) ==
    \E t \in Executors :
        xid[t] = id /\ xpc[t] \in {"state", "create", "get", "running"}

\* What is observed when a request sets the script's 'enabled' to now: the
\* state a script has at the moment it is disabled, and its re-enabling.
Observe(id, now) ==
    LET was == scripts[SlotOf(id)].enabled
    IN IF was /\ ~now
       THEN IF script_states[id] # 0
            THEN [resume EXCEPT ![id] =
                     [phase |-> "disabled",
                      saved |-> stores[script_states[id]],
                      got |-> 0,
                      busy |-> InCall(id)]]
            ELSE [resume EXCEPT ![id] = NoResume]
       ELSE IF ~was /\ now /\ resume[id].phase = "disabled"
       THEN [resume EXCEPT ![id].phase = "reenabled"]
       ELSE resume

\* A toggle that discards the script's state.
api_script_toggle_reset(id) ==
    /\ platform = "pi"
    /\ reqNo < reqBudget
    /\ reqNo' = reqNo + 1
    /\ IF Has(id)
       THEN /\ scripts' = [scripts EXCEPT ![SlotOf(id)].enabled = ~@]
            /\ resume' = Observe(id, ~scripts[SlotOf(id)].enabled)
            /\ script_states' = [script_states EXCEPT ![id] = 0]
       ELSE UNCHANGED <<scripts, resume, script_states>>
    /\ UNCHANGED <<platform, loopVars, clock, heap, commVars, espVars, gpioVars, auxVars, pollVars,
                   inflight, handlerVars, deleting, deleted,
                   otherScriptVars, wpc>>

\* web_server.py 204-227
api_script_toggle(id) ==
    /\ platform = "pi"
    /\ reqNo < reqBudget
    /\ reqNo' = reqNo + 1
    /\ IF Has(id)
       THEN /\ scripts' = [scripts EXCEPT ![SlotOf(id)].enabled = ~@]
            /\ resume' = Observe(id, ~scripts[SlotOf(id)].enabled)
       ELSE UNCHANGED <<scripts, resume>>
    /\ UNCHANGED <<platform, loopVars, clock, heap, commVars, espVars, gpioVars, auxVars, pollVars,
                   inflight, handlerVars, script_states, deleting, deleted,
                   otherScriptVars, wpc>>

\* web_server.py 229-265.  enabled: the request's 'enabled' field, "absent"
\* when it has none; name, description, code and gpio_pins are not modelled.
api_script_update(id, enabled) ==
    /\ platform = "pi"
    /\ reqNo < reqBudget
    /\ reqNo' = reqNo + 1
    /\ IF Has(id) /\ enabled # "absent"
       THEN /\ scripts' = [scripts EXCEPT
                              ![SlotOf(id)].enabled = (enabled = "True")]
            /\ resume' = Observe(id, enabled = "True")
       ELSE UNCHANGED <<scripts, resume>>
    /\ UNCHANGED <<platform, loopVars, clock, heap, commVars, espVars, gpioVars, auxVars, pollVars,
                   inflight, handlerVars, script_states, deleting, deleted,
                   otherScriptVars, wpc>>

\* web_server.py 267-305.  A new key goes to the end of the dictionary.
api_script_create(id, enabled) ==
    /\ platform = "pi"
    /\ reqNo < reqBudget
    /\ reqNo' = reqNo + 1
    /\ IF Has(id)
       THEN UNCHANGED scripts
       ELSE scripts' = Append(scripts,
                          [id |-> id, live |-> TRUE, enabled |-> enabled])
    /\ UNCHANGED <<platform, loopVars, clock, heap, commVars, espVars, gpioVars, auxVars, pollVars,
                   inflight, handlerVars, script_states, deleting, deleted,
                   otherScriptVars, resume, wpc>>

\* web_server.py 307-318: del self.script_engine.scripts[script_id].  The
\* deleted key leaves an empty slot behind.
api_script_delete(id) ==
    /\ platform = "pi"
    /\ reqNo < reqBudget
    /\ reqNo' = reqNo + 1
    /\ IF Has(id)
       THEN /\ scripts' = [scripts EXCEPT ![SlotOf(id)].live = FALSE]
            /\ deleting' = deleting \cup {id}
            /\ deleted' = deleted \cup {id}
            /\ resume' = [resume EXCEPT ![id] = NoResume]
       ELSE UNCHANGED <<scripts, deleting, deleted, resume>>
    /\ UNCHANGED <<platform, loopVars, clock, heap, commVars, espVars, gpioVars, auxVars, pollVars,
                   inflight, handlerVars, script_states, otherScriptVars, wpc>>

\* web_server.py 320-331: the script's state is removed when it has one,
\* and the request is answered.
api_script_delete_state(id) ==
    /\ id \in deleting
    /\ deleting' = deleting \ {id}
    /\ script_states' = [script_states EXCEPT ![id] = 0]
    /\ UNCHANGED <<platform, loopVars, clock, heap, commVars, espVars, gpioVars, auxVars, pollVars,
                   inflight, handlerVars, scripts, deleted, reqNo, batchBudget, reqBudget,
                   otherScriptVars, resume, wpc>>

(* ------------------- ScriptExecutor.execute_script -------------------- *)

\* custom_scripts.py (Pi) 271-278: the dictionary a script returned, tagged;
\* 284-290: the record of a script that raised.
PiEntry(id, o) ==
    IF o = "ok"
    THEN [status |-> "ok", script_name |-> id, script_id |-> id,
          timestamp |-> clock]
    ELSE [error |-> "Script execution failed", script_id |-> id,
          timestamp |-> clock]

\* custom_scripts.py (Pi) 231
PiNotFound == [error |-> "Script not found"]

\* custom_scripts.py (Pi) 236
PiDisabled == [status |-> "Script disabled"]

\* results[script_id] = entry
Put(res, id, entry) ==
    [k \in (DOMAIN res) \cup {id} |-> IF k = id THEN entry ELSE res[k]]

\* execute_script returns entry to its caller: the batch stores it under
\* the script's id and goes on (custom_scripts.py 298), the request handler
\* answers with it (web_server.py 366-371).
Returns(t, entry) ==
    /\ xpc' = [xpc EXCEPT ![t] = IF t = Poller THEN "idle" ELSE "done"]
    /\ IF t = Poller
       THEN bpc' = "iter" /\ results' = Put(results, xid[t], entry)
       ELSE UNCHANGED <<bpc, results>>

\* execute_script raises: the exception leaves the batch (and is caught by
\* the polling loop, main.py 125); the request handler catches it and
\* answers 500 (web_server.py 372-376).
Raises(t) ==
    /\ xpc' = [xpc EXCEPT ![t] = IF t = Poller THEN "idle" ELSE "done"]
    /\ bpc' = IF t = Poller THEN "raised" ELSE bpc
    /\ UNCHANGED results

\* custom_scripts.py (Pi) 230-231: execute_script's membership test.
execute_script_check(t) ==
    /\ xpc[t] = "check"
    /\ IF Has(xid[t])
       THEN /\ xpc' = [xpc EXCEPT ![t] = "lookup"]
            /\ UNCHANGED <<bpc, results>>
       ELSE Returns(t, PiNotFound)
    /\ UNCHANGED <<platform, loopVars, clock, heap, commVars, espVars, gpioVars, auxVars, pollVars,
                   inflight, handlerVars, scripts, script_states, stores,
                   deleting, enabled_scripts, it, cur, ran, atStart, deleted,
                   batchNo, reqNo, batchBudget, reqBudget, xid, xst, xgot, resume, wpc>>

\* custom_scripts.py (Pi) 233-236: the lookup (a KeyError when the script
\* is gone, outside the try) and the enabled test.
execute_script_lookup(t) ==
    /\ xpc[t] = "lookup"
    /\ IF ~Has(xid[t])
       THEN Raises(t)
       ELSE IF ~Enabled(xid[t])
       THEN Returns(t, PiDisabled)
       ELSE /\ xpc' = [xpc EXCEPT ![t] = "state"]
            /\ UNCHANGED <<bpc, results>>
    /\ UNCHANGED <<platform, loopVars, clock, heap, commVars, espVars, gpioVars, auxVars, pollVars,
                   inflight, handlerVars, scripts, script_states, stores,
                   deleting, enabled_scripts, it, cur, ran, atStart, deleted,
                   batchNo, reqNo, batchBudget, reqBudget, xid, xst, xgot, resume, wpc>>

\* custom_scripts.py (Pi) 245: if script_id not in self.engine.script_states
execute_script_state(t) ==
    /\ xpc[t] = "state"
    /\ xpc' = [xpc EXCEPT ![t] =
                  IF script_states[xid[t]] = 0 THEN "create" ELSE "get"]
    /\ UNCHANGED <<platform, loopVars, clock, heap, commVars, espVars, gpioVars, auxVars, pollVars,
                   inflight, handlerVars, scripts, script_states, stores,
                   deleting, enabled_scripts, bpc, it, cur, results, ran,
                   atStart, deleted, batchNo, reqNo, batchBudget, reqBudget, xid, xst, xgot, resume, wpc>>

\* custom_scripts.py (Pi) 246: self.engine.script_states[script_id] = {}
execute_script_create(t) ==
    /\ xpc[t] = "create"
    /\ stores' = Append(stores, 0)
    /\ script_states' = [script_states EXCEPT ![xid[t]] = Len(stores) + 1]
    /\ xpc' = [xpc EXCEPT ![t] = "get"]
    /\ UNCHANGED <<platform, loopVars, clock, heap, commVars, espVars, gpioVars, auxVars, pollVars,
                   inflight, handlerVars, scripts, deleting, enabled_scripts,
                   bpc, it, cur, results, ran, atStart, deleted, batchNo,
                   reqNo, batchBudget, reqBudget, xid, xst, xgot, resume, wpc>>

\* custom_scripts.py (Pi) 248-271: script_state =
\* self.engine.script_states[script_id] (a KeyError, inside the try, when a
\* delete removed it meanwhile), the globals are built, the code compiled
\* and execute(plc_data, gpio, script_state) called: the script's code
\* begins with the dictionary as it is now.
execute_script_begin(t) ==
    /\ xpc[t] = "get"
    /\ IF script_states[xid[t]] = 0
       THEN /\ Returns(t, PiEntry(xid[t], "raise"))
            /\ UNCHANGED <<xst, xgot, resume>>
       ELSE /\ xpc' = [xpc EXCEPT ![t] = "running"]
            /\ xst' = [xst EXCEPT ![t] = script_states[xid[t]]]
            /\ xgot' = [xgot EXCEPT ![t] = stores[script_states[xid[t]]]]
            /\ resume' =
                  IF resume[xid[t]].phase = "reenabled"
                  THEN [resume EXCEPT
                           ![xid[t]].phase = "resumed",
                           ![xid[t]].got = stores[script_states[xid[t]]]]
                  ELSE resume
            /\ UNCHANGED <<bpc, results>>
    /\ UNCHANGED <<platform, loopVars, clock, heap, commVars, espVars, gpioVars, auxVars, pollVars,
                   inflight, handlerVars, scripts, script_states, stores,
                   deleting, enabled_scripts, it, cur, ran, atStart, deleted,
                   batchNo, reqNo, batchBudget, reqBudget, xid, wpc>>

\* custom_scripts.py (Pi) 271-290: the script's code ends.  o: what it
\* does: it stores a value in its state dictionary and returns, or it
\* raises and the except clause builds the error record.
execute_script_end(t, o) ==
    /\ xpc[t] = "running"
    /\ wpc[t] = "none"
    /\ stores' = IF o = "ok" THEN [stores EXCEPT ![xst[t]] = @ + 1]
                 ELSE stores
    /\ Returns(t, PiEntry(xid[t], o))
    /\ ran' = IF t = Poller THEN [ran EXCEPT ![xid[t]] = o] ELSE ran
    /\ xst' = [xst EXCEPT ![t] = 0]
    /\ xgot' = [xgot EXCEPT ![t] = NotBegun]
    /\ UNCHANGED <<platform, loopVars, clock, heap, commVars, espVars, gpioVars, auxVars, pollVars,
                   inflight, handlerVars, scripts, script_states, deleting,
                   enabled_scripts, it, cur, atStart, deleted, batchNo,
                   reqNo, batchBudget, reqBudget, xid, resume, wpc>>

\* custom_scripts.py (Pi) 212-226 and plc_communication.py 266-267,
\* 284-285: the script's code calls gpio.write_coil or gpio.write_register,
\* which calls the communicator's method on the executing thread.  Without
\* a connection the method returns at once and nothing changes.
write_wrapper_call(t) ==
    /\ platform = "pi"
    /\ xpc[t] = "running"
    /\ wpc[t] = "none"
    /\ wpc' = IF ~connected \/ client = "none"
              THEN wpc
              ELSE [wpc EXCEPT ![t] = "lock"]
    /\ UNCHANGED <<platform, loopVars, clock, heap, commVars, espVars, gpioVars, auxVars, pollVars,
                   inflight, handlerVars, scripts, script_states, stores,
                   deleting, enabled_scripts, bpc, it, cur, results, ran,
                   atStart, deleted, batchNo, reqNo, batchBudget, reqBudget,
                   xpc, xid, xst, xgot, resume>>

\* plc_communication.py 270-271, 288-289: with self.connection_lock on the
\* executing thread (threading.Lock is not reentrant: a thread that holds
\* it waits like any other), then the request is sent.
write_wrapper_acquire(t) ==
    /\ wpc[t] = "lock"
    /\ connection_lock = Free
    /\ connection_lock' = t
    /\ inflight' = inflight \cup {t}
    /\ wpc' = [wpc EXCEPT ![t] = "exchange"]
    /\ UNCHANGED <<platform, loopVars, clock, heap, started, simulation_mode,
                   connected, client, plc_status, last_update, espVars, gpioVars, auxVars,
                   pollVars, handlerVars, scripts, script_states, stores,
                   deleting, enabled_scripts, bpc, it, cur, results, ran,
                   atStart, deleted, batchNo, reqNo, batchBudget, reqBudget,
                   xpc, xid, xst, xgot, resume, connret>>

\* plc_communication.py 271-280, 289-298: the response, the lock's release
\* and the return to the script's code.
write_wrapper_response(t) ==
    /\ wpc[t] = "exchange"
    /\ connection_lock' = Free
    /\ inflight' = inflight \ {t}
    /\ wpc' = [wpc EXCEPT ![t] = "none"]
    /\ UNCHANGED <<platform, loopVars, clock, heap, started, simulation_mode,
                   connected, client, plc_status, last_update, espVars, gpioVars, auxVars,
                   pollVars, handlerVars, scripts, script_states, stores,
                   deleting, enabled_scripts, bpc, it, cur, results, ran,
                   atStart, deleted, batchNo, reqNo, batchBudget, reqBudget,
                   xpc, xid, xst, xgot, resume, connret>>

\* The steps of a write callback made by the script that thread t executes.
_write_coil_wrapper(t) ==
    \/ write_wrapper_call(t)
    \/ write_wrapper_acquire(t)
    \/ write_wrapper_response(t)

\* The steps of a call of execute_script by thread t.
execute_script(t) ==
    \/ execute_script_check(t)
    \/ execute_script_lookup(t)
    \/ execute_script_state(t)
    \/ execute_script_create(t)
    \/ execute_script_begin(t)
    \/ \E o \in Behaviours : execute_script_end(t, o)

(* ------------ ScriptExecutor.execute_all_enabled_scripts -------------- *)

\* custom_scripts.py (Pi) 294-296: results = {} and the iterator over
\* self.engine.scripts.items() is created; it remembers the dictionary's
\* size.  Called by the polling loop (main.py 117) once per cycle.
execute_all_enabled_scripts ==
    /\ platform = "pi"
    /\ Quiet
    /\ batchNo < batchBudget
    /\ batchNo' = batchNo + 1
    /\ bpc' = "iter"
    /\ it' = [pos |-> 1, used |-> Size, len |-> Size]
    /\ cur' = 0
    /\ results' = NoResults
    /\ ran' = NotRun
    /\ atStart' = {id \in ScriptIds : Enabled(id)}
    /\ deleted' = {}
    /\ IF lpc = "batch"
       THEN /\ lpc' = "inbatch"
            /\ cycle' = [cycle EXCEPT !.batches = @ + 1]
       ELSE UNCHANGED <<lpc, cycle>>
    /\ UNCHANGED <<platform, running, mpc, clock, heap, commVars, espVars, gpioVars, auxVars, pollVars,
                   inflight, handlerVars, scripts, script_states, stores,
                   deleting, enabled_scripts, reqNo, batchBudget, reqBudget, execVars, resume,
                   script_results>>

\* custom_scripts.py (Pi) 296-298: the for statement asks the iterator for
\* the next item and execute_script is called for an enabled one.  The
\* dictionary iterator raises RuntimeError when the size differs from the
\* one it remembers, or when it finds an item after it has handed out as
\* many as the dictionary had; the exception leaves the batch (and is
\* caught by the polling loop, main.py 125).
batch_next ==
    /\ bpc = "iter"
    /\ LET rest == {i \in LiveSlots : i >= it.pos}
           i == CHOOSE j \in rest : \A k \in rest : j <= k
       IN IF Size # it.used
          THEN /\ bpc' = "raised"
               /\ UNCHANGED <<it, cur, xpc, xid>>
          ELSE IF rest = {}
          THEN \* 299-303: gpio_states is added and the results returned
               /\ bpc' = "done"
               /\ UNCHANGED <<it, cur, xpc, xid>>
          ELSE IF it.len = 0
          THEN /\ bpc' = "raised"
               /\ UNCHANGED <<it, cur, xpc, xid>>
          ELSE /\ it' = [it EXCEPT !.pos = i + 1, !.len = @ - 1]
               /\ IF scripts[i].enabled
                  THEN /\ bpc' = "exec"
                       /\ cur' = scripts[i].id
                       /\ xpc' = [xpc EXCEPT ![Poller] = "check"]
                       /\ xid' = [xid EXCEPT ![Poller] = scripts[i].id]
                  ELSE bpc' = "iter" /\ UNCHANGED <<cur, xpc, xid>>
    /\ UNCHANGED <<platform, loopVars, clock, heap, commVars, espVars, gpioVars, auxVars, pollVars,
                   inflight, handlerVars, scripts, script_states, stores,
                   deleting, enabled_scripts, results, ran, atStart, deleted,
                   batchNo, reqNo, batchBudget, reqBudget, xst, xgot, resume, wpc>>

(* ------------------- /api/scripts/<id>/execute ------------------------ *)

\* A get_status that also stamps the snapshot with the time of the call.
StatusWithAge_stamped ==
    IF last_update # 0
    THEN [plc_status EXCEPT
             !.data_age_seconds = clock - last_update,
             !.data_fresh = IF clock - last_update < POLL_INTERVAL * 2
                            THEN "True" ELSE "False",
             !.last_update = clock]
    ELSE plc_status

\* plc_communication.py 257-260: plc_status with the age fields get_status
\* stores into it.
StatusWithAge ==
    IF last_update # 0
    THEN [plc_status EXCEPT
             !.data_age_seconds = clock - last_update,
             !.data_fresh = IF clock - last_update < POLL_INTERVAL * 2
                            THEN "True" ELSE "False"]
    ELSE plc_status

\* web_server.py 352-363: the request is answered 404 when the registry has
\* no such script; otherwise get_status is called and execute_script
\* follows, on the web server's thread.
api_script_execute(h, id) ==
    /\ platform = "pi"
    /\ h # Poller
    /\ xpc[h] = "idle"
    /\ xid' = [xid EXCEPT ![h] = id]
    /\ IF Has(id)
       THEN /\ xpc' = [xpc EXCEPT ![h] = "check"]
            /\ plc_status' = StatusWithAge
       ELSE /\ xpc' = [xpc EXCEPT ![h] = "done"]
            /\ UNCHANGED plc_status
    /\ UNCHANGED <<platform, loopVars, clock, heap, started, simulation_mode, connected,
                   client, connection_lock, last_update, espVars, gpioVars, auxVars, pollVars,
                   inflight, handlerVars, scripts, script_states, stores,
                   deleting, enabled_scripts, bpc, it, cur, results, ran,
                   atStart, deleted, batchNo, reqNo, batchBudget, reqBudget, xst, xgot, resume, wpc, connret>>

(* ------------- ESP32ScriptEngine.enable / disable --------------------- *)

\* custom_scripts.py (ESP) 217-223
enable_script(id) ==
    /\ platform = "esp"
    /\ Quiet
    /\ reqNo < reqBudget
    /\ reqNo' = reqNo + 1
    /\ IF Has(id)
       THEN /\ scripts' = [scripts EXCEPT ![SlotOf(id)].enabled = TRUE]
            /\ enabled_scripts' = enabled_scripts \cup {id}
       ELSE UNCHANGED <<scripts, enabled_scripts>>
    /\ UNCHANGED <<platform, loopVars, clock, heap, commVars, espVars, gpioVars, auxVars, pollVars,
                   inflight, handlerVars, script_states, stores, deleting,
                   bpc, it, cur, results, ran, atStart, deleted, batchNo,
                   batchBudget, reqBudget, execVars, resume>>

\* A disable_script that clears the flag and leaves the set as it is.
disable_script_keeps_set(id) ==
    /\ platform = "esp"
    /\ Quiet
    /\ reqNo < reqBudget
    /\ reqNo' = reqNo + 1
    /\ IF Has(id)
       THEN /\ scripts' = [scripts EXCEPT ![SlotOf(id)].enabled = FALSE]
            /\ UNCHANGED enabled_scripts
       ELSE UNCHANGED <<scripts, enabled_scripts>>
    /\ UNCHANGED <<platform, loopVars, clock, heap, commVars, espVars, gpioVars, auxVars, pollVars,
                   inflight, handlerVars, script_states, stores, deleting,
                   bpc, it, cur, results, ran, atStart, deleted, batchNo,
                   batchBudget, reqBudget, execVars, resume>>

\* custom_scripts.py (ESP) 225-231
disable_script(id) ==
    /\ platform = "esp"
    /\ Quiet
    /\ reqNo < reqBudget
    /\ reqNo' = reqNo + 1
    /\ IF Has(id)
       THEN /\ scripts' = [scripts EXCEPT ![SlotOf(id)].enabled = FALSE]
            /\ enabled_scripts' = enabled_scripts \ {id}
       ELSE UNCHANGED <<scripts, enabled_scripts>>
    /\ UNCHANGED <<platform, loopVars, clock, heap, commVars, espVars, gpioVars, auxVars, pollVars,
                   inflight, handlerVars, script_states, stores, deleting,
                   bpc, it, cur, results, ran, atStart, deleted, batchNo,
                   batchBudget, reqBudget, execVars, resume>>

(* ----------------------- batches and requests ------------------------- *)

Requests ==
    \/ \E id \in ScriptIds : api_script_toggle(id)
    \/ \E id \in ScriptIds : \E e \in {"absent", "True", "False"} :
          api_script_update(id, e)
    \/ \E id \in ScriptIds : \E e \in BOOLEAN : api_script_create(id, e)
    \/ \E id \in ScriptIds : api_script_delete(id)
    \/ \E id \in ScriptIds : api_script_delete_state(id)

Batch ==
    \/ execute_all_enabled_scripts
    \/ batch_next
    \/ execute_script(Poller)
    \/ \E o \in [EspRunSet -> Behaviours] : execute_enabled_scripts(o)
    \/ \E id \in ScriptIds : enable_script(id)
    \/ \E id \in ScriptIds : disable_script(id)

\* Requests are served between batches only.
NextBatch ==
    \/ Quiet /\ Requests
    \/ Batch

\* Requests are served by the web server's threads at any time.
NextScripts ==
    \/ Requests
    \/ Batch

SpecBatch == Init /\ [][NextBatch]_vars

SpecScripts == Init /\ [][NextScripts]_vars

\* An error record: it carries an error.
IsErrorRecord(e) == "error" \in DOMAIN e /\ e.error # "None"

\* The entry a script gets when its code returns.
SuccessEntry(id) ==
    IF platform = "pi" THEN PiEntry(id, "ok") ELSE EspEntry(id, "ok")

\* C9: script failures are isolated: when an enabled script raises during
\* a batch, the batch still completes, the script's entry is an error record
\* tagged with its script id and a timestamp, and every other enabled script
\* is still executed and gets the result it gets when nothing fails.
C9_ScriptFailuresIsolated ==
    /\ bpc # "raised"
    /\ bpc = "done" =>
          \A id \in atStart :
              /\ id \in DOMAIN results
              /\ ran[id] = "raise" =>
                    /\ IsErrorRecord(results[id])
                    /\ "script_id" \in DOMAIN results[id]
                    /\ results[id].script_id = id
                    /\ "timestamp" \in DOMAIN results[id]
              /\ ran[id] = "ok" => results[id] = SuccessEntry(id)

\* C10: registry requests that interleave with a batch never make it raise
\* or abort: the batch completes and returns a result for every script that
\* was enabled when it started and was not deleted meanwhile.
C10_RegistryMutationSafe ==
    /\ bpc # "raised"
    /\ bpc = "done" =>
          \A id \in atStart \ deleted : id \in DOMAIN results


(* ---------------- PLCWebBridge.start, stop and the loop --------------- *)

\* main.py 76-79: start() creates and starts the polling thread, which is
\* then at its first "while self.running".
start_thread ==
    /\ platform = "pi"
    /\ started
    /\ mpc = "new"
    /\ mpc' = "thread"
    /\ lpc' = "check"
    /\ UNCHANGED <<platform, clock, heap, commVars, espVars, gpioVars, auxVars, pollVars,
                   inflight, handlerVars, scriptVars, running, cycle,
                   script_results>>

\* main.py 81-84: start() sets the flag and runs the web server.
start_flag ==
    /\ mpc = "thread"
    /\ mpc' = "serving"
    /\ running' = TRUE
    /\ UNCHANGED <<platform, clock, heap, commVars, espVars, gpioVars, auxVars, pollVars,
                   inflight, handlerVars, scriptVars, lpc, cycle,
                   script_results>>

\* main.py 90-93, 129-133: a signal interrupts the main thread, inside
\* start() or in the web server, and stop() clears the flag; disconnect()
\* and the join of the polling thread follow.
stop ==
    /\ platform = "pi"
    /\ mpc \in {"thread", "serving"}
    /\ mpc' = "stopping"
    /\ running' = FALSE
    /\ UNCHANGED <<platform, clock, heap, commVars, espVars, gpioVars, auxVars, pollVars,
                   inflight, handlerVars, scriptVars, lpc, cycle,
                   script_results>>

\* main.py (ESP) 862-868: run() sets the flag and then creates the tasks.
esp_run ==
    /\ platform = "esp"
    /\ mpc = "new"
    /\ mpc' = "serving"
    /\ running' = TRUE
    /\ lpc' = "check"
    /\ UNCHANGED <<platform, clock, heap, commVars, espVars, gpioVars, auxVars, pollVars,
                   inflight, handlerVars, scriptVars, cycle,
                   script_results>>

\* main.py (ESP) 874-879: run() is interrupted and clears the flag.
esp_interrupt ==
    /\ platform = "esp"
    /\ mpc = "serving"
    /\ mpc' = "stopping"
    /\ running' = FALSE
    /\ UNCHANGED <<platform, clock, heap, commVars, espVars, gpioVars, auxVars, pollVars,
                   inflight, handlerVars, scriptVars, lpc, cycle,
                   script_results>>

\* A loop that never tests the flag.
loop_check_unconditional ==
    /\ lpc = "check"
    /\ lpc' = "poll"
    /\ cycle' = [NoCycle EXCEPT !.prev = cycle.prev]
    /\ UNCHANGED <<platform, clock, heap, commVars, espVars, gpioVars, auxVars, pollVars,
                   inflight, handlerVars, scriptVars, running, mpc,
                   script_results>>

\* main.py 109 and main.py (ESP) 822: while self.running.
loop_check ==
    /\ lpc = "check"
    /\ IF running
       THEN /\ lpc' = "poll"
            /\ cycle' = [NoCycle EXCEPT !.prev = cycle.prev]
       ELSE /\ lpc' = "exited"
            /\ UNCHANGED cycle
    /\ UNCHANGED <<platform, clock, heap, commVars, espVars, gpioVars, auxVars, pollVars,
                   inflight, handlerVars, scriptVars, running, mpc,
                   script_results>>

\* main.py 116: plc_data = self.plc_communicator.get_status()
loop_get_status ==
    /\ lpc = "status"
    /\ lpc' = "batch"
    /\ plc_status' = StatusWithAge
    /\ UNCHANGED <<platform, clock, heap, started, simulation_mode, connected,
                   client, connection_lock, last_update, espVars, gpioVars, auxVars, pollVars,
                   inflight, handlerVars, scriptVars, running, mpc, cycle,
                   script_results, connret>>

\* main.py 117-120: the batch has returned its results and they are stored
\* in the communicator's script_results.
loop_store ==
    /\ lpc = "inbatch"
    /\ bpc = "done"
    /\ lpc' = "sleep"
    /\ script_results' = batchNo
    /\ UNCHANGED <<platform, clock, heap, commVars, espVars, gpioVars, auxVars, pollVars,
                   inflight, handlerVars, scriptVars, running, mpc, cycle>>

\* An exception that ends the polling thread.
loop_except_fatal ==
    /\ lpc = "inbatch"
    /\ bpc = "raised"
    /\ lpc' = "exited"
    /\ UNCHANGED <<platform, clock, heap, commVars, espVars, gpioVars, auxVars, pollVars,
                   inflight, handlerVars, scriptVars, running, mpc, cycle,
                   script_results>>

\* main.py 125-126: the exception that left the batch is caught and logged.
loop_except ==
    /\ lpc = "inbatch"
    /\ bpc = "raised"
    /\ lpc' = "backoff"
    /\ UNCHANGED <<platform, clock, heap, commVars, espVars, gpioVars, auxVars, pollVars,
                   inflight, handlerVars, scriptVars, running, mpc, cycle,
                   script_results>>

\* main.py 123 and main.py (ESP) 826: the sleep of POLL_INTERVAL ends.
loop_sleep ==
    /\ lpc = "sleep"
    /\ lpc' = "check"
    /\ cycle' = [cycle EXCEPT !.prev = "slept"]
    /\ UNCHANGED <<platform, clock, heap, commVars, espVars, gpioVars, auxVars, pollVars,
                   inflight, handlerVars, scriptVars, running, mpc,
                   script_results>>

\* main.py 127: the backoff pause after an exception ends.
loop_backoff ==
    /\ lpc = "backoff"
    /\ lpc' = "check"
    /\ cycle' = [cycle EXCEPT !.prev = "failed"]
    /\ UNCHANGED <<platform, clock, heap, commVars, espVars, gpioVars, auxVars, pollVars,
                   inflight, handlerVars, scriptVars, running, mpc,
                   script_results>>

\* The steps of the polling thread.
_data_polling_loop ==
    /\ platform = "pi"
    /\ \/ loop_check
       \/ lpc = "poll" /\ poll_data_call
       \/ poll_data_acquire
       \/ poll_data_request
       \/ \E o \in Outcomes : poll_data_response(o)
       \/ poll_data_stamp
       \/ poll_data_return
       \/ loop_get_status
       \/ lpc = "batch" /\ execute_all_enabled_scripts
       \/ batch_next
       \/ execute_script(Poller)
       \/ loop_store
       \/ loop_except
       \/ loop_sleep
       \/ loop_backoff

\* The steps of the ESP's polling task, which is run by the event loop
\* that run() keeps alive (main.py (ESP) 873).
plc_polling_task ==
    /\ platform = "esp"
    /\ mpc = "serving"
    /\ \/ loop_check
       \/ lpc = "poll" /\ EspPoll
       \/ EspPollReturn
       \/ loop_sleep

NextLoop ==
    \/ Connect
    \/ start_thread
    \/ start_flag
    \/ stop
    \/ mpc = "stopping" /\ disconnect
    \/ esp_run
    \/ esp_interrupt
    \/ _data_polling_loop
    \/ plc_polling_task
    \/ \E id \in ScriptIds \ (1..NumDefaults) : \E e \in BOOLEAN :
          api_script_create(id, e)

InitLoop == InitOf(LoopPolls, LoopPolls, LoopRequests)

SpecLoop == InitLoop /\ [][NextLoop]_vars

\* The operating system keeps scheduling the polling thread, and every
\* exchange ends (with a response or with the transport's timeout): a step
\* of the thread (of the task, on the ESP's event loop) that stays possible
\* is eventually taken.  Nothing is
\* assumed of the requests, of the signal or of the main thread.
SpecLoopFair ==
    SpecLoop /\ WF_vars(_data_polling_loop) /\ WF_vars(plc_polling_task)

\* The platform has a script engine: always on the Pi (main.py 46-47), when
\* custom_scripts could be imported on the ESP.
HasEngine == platform = "esp" => script_engine

\* The cycle of the polling loop has come to its end.
CycleEnded == lpc \in {"sleep", "backoff"}

\* C15: the batch of enabled scripts runs in a poll cycle if and only if
\* that cycle's poll returned true, and at most once per cycle.
C15_BatchIffPollTrue ==
    /\ cycle.batches <= 1
    /\ (CycleEnded /\ HasEngine) =>
          (cycle.poll = "True" <=> cycle.batches = 1)

\* C18: from start() until stop is requested the polling task stays in its
\* loop: it has not left the loop unless stop was requested, however its
\* first test of the flag interleaves with the rest of start().
C18_PollingTaskStaysAlive == lpc = "exited" => mpc = "stopping"

\* The loop cannot go on because the cycles explored are used up.
Exhausted == lpc = "poll" /\ pollpc = "idle" /\ pollNo >= pollBudget

\* C16: the polling loop survives exceptions: an exception that leaves the
\* batch does not end the polling task, and after the backoff pause another
\* cycle is started unless the running flag was cleared.
C16_LoopSurvivesExceptions ==
    /\ [][(lpc = "inbatch" /\ bpc = "raised") => lpc' # "exited"]_vars
    /\ (lpc = "backoff") ~> (lpc = "poll" \/ ~running)

\* A cycle has started after the backoff pause that followed an exception.
C16_Witness ==
    /\ lpc = "poll"
    /\ cycle.prev = "failed"
    /\ running

NextExec ==
    \/ Requests
    \/ Batch
    \/ \E h \in Executors : \E id \in ScriptIds : api_script_execute(h, id)
    \/ \E h \in Executors \ {Poller} : execute_script(h)

SpecExec == Init /\ [][NextExec]_vars

\* The threads whose script's code is running.
Executing == {t \in Executors : xpc[t] = "running"}

\* C11: script executions are strictly sequential: at no moment is the code
\* of more than one script running, an execute-one-script-now request that
\* is served while a batch runs included.
C11_ExecutionsSequential == Cardinality(Executing) <= 1

\* An execution of the script ends in this step.
EndsExecution(id) ==
    \E t \in Executors :
        xid[t] = id /\ xpc[t] = "running" /\ xpc'[t] # "running"

\* C13: a script's runtime state persists between executions: while the
\* script is in the registry, the store created at its first execution
\* stays its store, and what it holds is changed by nothing but the end of
\* an execution of that script (no execution of another script and no
\* request does).
C13_StatePersists ==
    [][\A id \in ScriptIds :
          (Has(id) /\ Has(id)' /\ script_states[id] # 0) =>
              /\ script_states'[id] = script_states[id]
              /\ stores'[script_states[id]] # stores[script_states[id]]
                    => EndsExecution(id)]_vars

\* C14: once a delete request for a script has completed, no runtime
\* state is held for its id, however the delete interleaves with the
\* executions of the script; a script created later with that id starts
\* with an empty store.
C14_StateClearedOnDelete ==
    \A id \in ScriptIds :
        (~Has(id) /\ id \notin deleting) => script_states[id] = 0

(* ------------------- disabling and re-enabling ------------------------ *)

\* The default scripts are enabled and disabled by requests while the
\* batches of the polling thread run them.
NextResume ==
    \/ \E id \in 1..NumDefaults : api_script_toggle(id)
    \/ \E id \in 1..NumDefaults : \E e \in {"absent", "True", "False"} :
          api_script_update(id, e)
    \/ execute_all_enabled_scripts
    \/ batch_next
    \/ execute_script(Poller)

InitResume ==
    InitOf(MaxPolls, ResumeBatches, ResumeRequests) /\ platform = "pi"

SpecResume == InitResume /\ [][NextResume]_vars

\* C12 as claimed: the first execution of a script after it was disabled
\* with stored state and re-enabled receives exactly the state the script
\* had at the moment it was disabled.
C12_ResumesWithStateAtDisable ==
    \A id \in ScriptIds :
        resume[id].phase = "resumed" => resume[id].got = resume[id].saved

\* C12, amended: when no execution of the script is in progress at the
\* moment it is disabled, the first execution after re-enabling receives
\* exactly the state the script had at that moment.
C12_ResumesWithStateLeft ==
    \A id \in ScriptIds :
        (resume[id].phase = "resumed" /\ ~resume[id].busy) =>
            resume[id].got = resume[id].saved

\* A script that had stored a value was disabled while idle, re-enabled,
\* and has begun its next execution.
C12_Witness ==
    \E id \in ScriptIds :
        /\ resume[id].phase = "resumed"
        /\ ~resume[id].busy
        /\ resume[id].saved > 0
        /\ \E t \in Executors : xid[t] = id /\ xpc[t] = "running"


(* ------------- the batch's write callbacks and the lock --------------- *)

\* The polling thread with the write callbacks of the scripts it executes,
\* and web threads that write at any moment (the server is threaded,
\* web_server.py 560).  Every default script is disabled: a request creates
\* an enabled one once the server runs (main.py 84).
NextCallback ==
    \/ Connect
    \/ start_thread
    \/ start_flag
    \/ _data_polling_loop
    \/ _write_coil_wrapper(Poller)
    \/ \E h \in 1..CbWriters : write_coil(h)
    \/ \E h \in 1..CbWriters : write_acquire(h)
    \/ \E h \in 1..CbWriters : write_response(h)
    \/ \E id \in ScriptIds \ (1..NumDefaults) : \E e \in BOOLEAN :
          mpc = "serving" /\ api_script_create(id, e)

InitCallback == InitOf(LoopPolls, LoopPolls, LoopRequests) /\ platform = "pi"

SpecCallback == InitCallback /\ [][NextCallback]_vars

\* The batch of the polling loop is in progress.
InBatch == lpc = "inbatch" /\ bpc \in {"iter", "exec"}

\* poll_data is inside its with block.
PollHoldsLock == connection_lock = Poller /\ wpc[Poller] # "exchange"

\* C19 as stated: during every automation batch the transport lock is
\* free (outside the exchange of a callback of the script itself).
C19_LockFreeDuringBatch ==
    (InBatch /\ wpc[Poller] # "exchange") => connection_lock = Free

\* C19: the polling thread never holds the transport lock while its batch
\* runs, other than in the exchange of a script's own write callback: the
\* poll that triggered the batch has released it.  A callback that waits
\* for the lock therefore never waits for its own thread: the lock is free
\* for it to acquire, or a web thread holds it for the one exchange it is
\* in, which ends whatever the batch does.  The batch cannot deadlock
\* against the poll cycle that triggered it.
C19_BatchNeverHoldsLock ==
    /\ InBatch => ~PollHoldsLock
    /\ wpc[Poller] = "lock" =>
          \/ connection_lock = Free
          \/ \E h \in 1..CbWriters :
                connection_lock = h /\ hpc[h] = "exchange"

\* A script of the batch has called write_coil, has acquired the lock and
\* is in its exchange, after a web thread's write was served and while
\* the poll that triggered the batch had read its groups.
C19_Witness ==
    /\ InBatch
    /\ wpc[Poller] = "exchange"
    /\ connection_lock = Poller
    /\ cycle.poll = "True"
    /\ \E h \in 1..CbWriters : hpc[h] = "done" /\ hret[h].ok


(* ------------------ the lock between the group reads ------------------ *)

\* poll_data is between two of its exchanges: a group has been answered and
\* the request of the next one has not been sent.
BetweenGroupReads == pollpc = "read" /\ pollgrp > 1

\* C20: the transport lock is held for one exchange at a time: between the
\* coil, input and register exchanges of a poll the polling thread does not
\* hold it, so a write that waits for the lock can be served there.
C20_LockReleasedBetweenExchanges ==
    BetweenGroupReads => connection_lock # Poller


(* ------------- the communicator's methods in any sequence ------------- *)

\* connect, poll_data, write_coil, write_register and disconnect, called in
\* any order and from several threads.
NextApi ==
    \/ NextLock
    \/ \E how \in ConnectOutcomes : connect_again(how)

SpecApi == InitLock /\ [][NextApi]_vars

\* C21: whenever connect() has returned false, the communicator's
\* connected flag and the snapshot's connected field are both false, for
\* any sequence of earlier connect and disconnect calls.
C21_FailedConnectLeavesDisconnected ==
    connret = "False" => (~connected /\ ~plc_status.connected)


\* C22: with simulation mode configured, connect() returns true and marks
\* the snapshot connected, and whatever sequence of connect, poll_data,
\* write_coil, write_register and disconnect calls is made, no client
\* exists and no transport exchange is in progress.
C22_SimulationBypassesTransport ==
    simulation_mode =>
       /\ client = "none"
       /\ inflight = {}
       /\ connret \in {"none", "True"}
       /\ connret = "True" => (connected /\ plc_status.connected)

\* In simulation mode: connect has returned, a poll has generated its data
\* and returned true, and a write has been refused.
C22_Witness ==
    /\ simulation_mode
    /\ connret = "True"
    /\ pollpc = "returned" /\ pollret = "True"
    /\ \E h \in Handlers : hpc[h] = "done" /\ hret[h] = NotConnected


\* C23: when connect() has failed at startup, the polls that follow
\* generate simulated data and return true: the snapshot is populated and
\* last_update advances.
C23_FallsBackToSimulation ==
    (platform = "pi" /\ connret = "False" /\ pollpc = "returned") =>
       /\ pollret = "True"
       /\ plc_status.last_update # 0
       /\ \A g \in Groups : heap[plc_status[g]] # EmptyDict


\* C24: a transport failure is retried on the next scheduled cycle: after
\* connect() has failed because the device was absent, the poll of each
\* following cycle of the polling loop attempts the transport again (it
\* performs a group read, so that it can succeed once the device is
\* reachable).
C24_FailureRetriedNextCycle ==
    (platform = "pi" /\ lpc = "poll" /\ pollpc = "returned"
        /\ connret = "False") =>
       \E g \in Groups : Performed(g)


(* ------------------- ModbusRTU reads on their own --------------------- *)

NextRtu ==
    \/ rtu_write
    \/ rtu_read

\* One read of the ESP's ModbusRTU whose well-formed response arrives
\* whole.
InitCodec ==
    /\ InitBase(0, 0, 0)
    /\ platform = "esp" /\ modbus /\ ~script_engine
    /\ rtu \in RtuInputs(MaxBitCount, MaxRegCount, {"good"}, {1}, {0})

SpecCodec == InitCodec /\ [][NextRtu]_vars

\* One read over a line that may corrupt, shorten or lose the response, or
\* deliver the response of another slave or function.
InitRtu ==
    /\ InitBase(0, 0, 0)
    /\ platform = "esp" /\ modbus /\ ~script_engine
    /\ rtu \in RtuInputs(MaxFaultBits, MaxFaultRegs, LineKinds,
                          {1, 17}, {0, 258})

SpecRtu == InitRtu /\ [][NextRtu]_vars

\* The read has returned.
RtuDone == rtu.pc = "done"

\* C25: a read response whose trailing CRC is not the crc16 of the bytes
\* before it is rejected: the read returns null.
C25_BadCrcRejected ==
    (RtuDone /\ rtu.kind = "badcrc") => rtu.out.none

\* C26: a response shorter than 3 + byte_count + 2 bytes, or of another
\* slave id or function code than the request's, yields null for each of
\* the three reads, never a list of values.
C26_ShortOrMismatchedIsNull ==
    (RtuDone /\ rtu.kind \in {"short", "slave", "fn"}) => rtu.out.none

\* C27: decoding inverts encoding: the well-formed response that packs
\* count booleans least significant bit first is decoded to exactly those
\* booleans, and the one that holds count big-endian 16-bit values to
\* exactly those values.
C27_DecodeInvertsEncode ==
    (RtuDone /\ rtu.kind = "good") =>
       /\ ~rtu.out.none
       /\ rtu.fn \in {1, 2} =>
             (rtu.out.bits = rtu.bits /\ Len(rtu.out.bits) = rtu.count)
       /\ rtu.fn = 3 =>
             (rtu.out.regs = rtu.regs /\ Len(rtu.out.regs) = rtu.count)

\* Sixteen alternating booleans, packed into two bytes, have been decoded.
C27_Witness ==
    /\ RtuDone /\ rtu.kind = "good"
    /\ rtu.fn = 2 /\ rtu.count = 16
    /\ rtu.bits[1] /\ ~rtu.bits[2] /\ ~rtu.bits[16]
    /\ rtu.response[4] = 85 /\ rtu.response[5] = 85
    /\ rtu.out.bits = rtu.bits

\* C28: crc16 is the Modbus CRC-16 of every byte sequence (of the request's
\* header, of the response's body, and of the reference sequences), lies
\* in 0..0xFFFF, and build_request puts it low byte first after the six
\* header bytes.
C28_Crc16IsModbusCrc ==
    /\ crc16(<<49, 50, 51, 52, 53, 54, 55, 56, 57>>) = 19255
    /\ rtu.pc \in {"sent", "done"} =>
          LET header == SubSeq(rtu.request, 1, 6)
              crc == crc16(header)
          IN /\ crc = RefCrc(header)
             /\ crc \in 0..65535
             /\ Len(rtu.request) = 8
             /\ header = <<rtu.slave, rtu.fn, rtu.start \div 256,
                           rtu.start % 256, rtu.count \div 256,
                           rtu.count % 256>>
             /\ rtu.request[7] = crc % 256
             /\ rtu.request[8] = crc \div 256
    /\ (RtuDone /\ Len(rtu.response) > 2) =>
          LET body == SubSeq(rtu.response, 1, Len(rtu.response) - 2)
          IN crc16(body) = RefCrc(body) /\ crc16(body) \in 0..65535

\* A request for a start address with two non-zero bytes has been built,
\* and the body of a response has been summed.
C28_Witness ==
    /\ RtuDone
    /\ rtu.start = 258 /\ rtu.slave = 17
    /\ rtu.request[7] # rtu.request[8]
    /\ Len(rtu.response) > 5

(* ------------- polls over the serial line (C29, C30) ------------------ *)

NextFrames ==
    \/ EspPollFrames
    \/ EspPollReturn

\* The ESP-32 bridge with its ModbusRTU, polling a device over a line that
\* may deliver a shortened answer, a wrong CRC or nothing.
InitFrames ==
    /\ InitOf(FramePolls, 0, 0)
    /\ platform = "esp" /\ modbus

SpecFrames == InitFrames /\ [][NextFrames]_vars

\* The entries of a snapshot field: its keys, the numbered duplicates of
\* the registers (main.py 362-363) left out.
EntriesOf(f) ==
    {k \in DOMAIN heap[plc_data[f]] : f = "data_registers" => k[1] = "DS"}

Populated(f) == heap[plc_data[f]] # EmptyDict

\* C29: every snapshot group that has been populated holds exactly 16
\* inputs, exactly 16 coils and exactly 10 registers, never fewer or more,
\* after any sequence of polls with any accepted responses.
C29_GroupsKeepFixedSize ==
    \A g \in Groups : \A f \in EspFields(g) :
        Populated(f) => Cardinality(EntriesOf(f)) = CountOf(g)

\* The poll has returned and its read of the inputs got the well-formed
\* response to the request for 16 inputs.
InputsRead ==
    /\ platform = "esp"
    /\ pollpc = "returned"
    /\ plan["input_status"] = "good"

ScriptCode(id) ==
    CASE id = 1 -> "gpio_output_example"
      [] id = 2 -> "modbus_bit_example"
      [] OTHER -> "user"

\* custom_scripts.py (Pi) 46, 69, 96: the 'gpio_pins' of each script.
ScriptPins(id) ==
    CASE id = 1 -> {PIN_OUTPUT}
      [] id = 2 -> {}
      [] OTHER -> {PIN_TIMER}

\* plc_data.get('input_status', {}).get('X00k', False) on the snapshot
\* get_status returns, whose nested dictionaries are the live ones.
InputOf(k) ==
    LET inputs == heap[plc_status["input_status"]]
    IN IF Key("X", k) \in DOMAIN inputs THEN inputs[Key("X", k)] ELSE FALSE

\* plc_communication.py 264-280: what write_coil returns to the callback
\* of a script, the exchange taken in one step.  w: what the PLC answers.
CallbackWrite(w) ==
    IF ~connected \/ client = "none" THEN NotConnected
    ELSE CASE w = "ok" -> [ok |-> TRUE, message |-> "Success"]
           [] w = "error" -> [ok |-> FALSE, message |-> "str(result)"]
           [] w = "raise" -> [ok |-> FALSE, message |-> "str(e)"]

\* custom_scripts.py (Pi) 212-218 and 84: _write_coil_wrapper returns what
\* write_coil returned, the pair (success, message), and the script tests
\* it with "if": a tuple of two elements is true.
IfTuple(ret) == Len(<<ret.ok, ret.message>>) > 0

\* What the code of a script that is not a default does in one execution:
\* one call on its gpio argument (it sets its own pin, reads any pin, or
\* configures the pin of the mirror script again), or it raises.
UserBehaviours ==
    {[op |-> "raise", pin |-> PIN_TIMER, value |-> FALSE],
     [op |-> "setup_pin", pin |-> PIN_OUTPUT, value |-> FALSE]}
    \cup {[op |-> "set_pin", pin |-> PIN_TIMER, value |-> v] : v \in BOOLEAN}
    \cup {[op |-> "get_pin", pin |-> q, value |-> FALSE] : q \in Pins}

\* The pins after the code of the script ran, from pins ps.
CodePins(id, ps, o) ==
    CASE ScriptCode(id) = "gpio_output_example" ->
            set_pin(ps, PIN_OUTPUT, InputOf(1))
      [] ScriptCode(id) = "modbus_bit_example" -> ps
      [] OTHER ->
            CASE o.op = "set_pin" -> set_pin(ps, o.pin, o.value)
              [] o.op = "setup_pin" -> setup_pin(ps, o.pin, "input")
              [] OTHER -> ps

\* custom_scripts.py (Pi) 51-63, 76-89, 271-290: the dictionary the code
\* returned (or the record of the exception).
CodeResult(id, o, wrote) ==
    CASE ScriptCode(id) = "gpio_output_example" ->
            [kind |-> "returned",
             status |-> IF InputOf(1) THEN "GPIO 18 ON - X001 active"
                        ELSE "GPIO 18 OFF - X001 inactive",
             error |-> FALSE]
      [] ScriptCode(id) = "modbus_bit_example" ->
            IF IfTuple(wrote)
            THEN [kind |-> "returned", status |-> "Y005 = y005_value",
                  error |-> FALSE]
            ELSE [kind |-> "returned", status |-> "Failed to write Y005",
                  error |-> TRUE]
      [] OTHER ->
            IF o.op = "raise"
            THEN [kind |-> "raised", status |-> "Script execution failed",
                  error |-> TRUE]
            ELSE [kind |-> "returned", status |-> "ok", error |-> FALSE]

\* The value each pin was last given by a call of set_pin or setup_pin.
CodeSets(id, sets, o) ==
    CASE ScriptCode(id) = "gpio_output_example" ->
            [sets EXCEPT ![PIN_OUTPUT] =
                [touched |-> TRUE, value |-> InputOf(1)]]
      [] ScriptCode(id) = "modbus_bit_example" -> sets
      [] OTHER ->
            CASE o.op = "set_pin" ->
                    [sets EXCEPT ![o.pin] =
                        [touched |-> TRUE, value |-> o.value]]
              [] o.op = "setup_pin" ->
                    [sets EXCEPT ![o.pin] =
                        [touched |-> TRUE, value |-> FALSE]]
              [] OTHER -> sets

\* An execute_script that does not test the enabled flag.
ScriptRuns_unchecked(id) == Has(id)

\* custom_scripts.py (Pi) 230-236: the script is in the registry and its
\* enabled flag is true, so the call goes on to the pins and the code.
ScriptRuns(id) == Has(id) /\ Enabled(id)

\* custom_scripts.py (Pi) 228-290: one call of execute_script, from its
\* lookup to its return, on the snapshot get_status returns now, with no
\* other thread in the engine.  o: what the code of a created script does;
\* w: what the PLC answers to a write.
execute_script_call(id, o, w) ==
    /\ platform = "pi"
    /\ connection_lock = Free
    /\ LET runs == ScriptRuns(id)
           first == {q \in ScriptPins(id) : ~pin_states[q].cfg}
           configured == setup_pins(pin_states, ScriptPins(id))
           wrote == IF ScriptCode(id) = "modbus_bit_example"
                    THEN CallbackWrite(w) ELSE NoReturn
           store == IF script_states[id] = 0 THEN Len(stores) + 1
                    ELSE script_states[id]
           created == IF script_states[id] = 0 THEN Append(stores, 0)
                      ELSE stores
       IN /\ gcall' =
               [op |-> "execute_script", id |-> id,
                enabled |-> runs,
                ret |-> IF ~Has(id)
                        THEN [kind |-> "not_found",
                              status |-> "Script not found", error |-> TRUE]
                        ELSE IF ~Enabled(id)
                        THEN [kind |-> "disabled",
                              status |-> "Script disabled", error |-> FALSE]
                        ELSE CodeResult(id, o, wrote),
                saw |-> InputOf(1),
                write |-> IF runs THEN wrote ELSE NoReturn,
                truthy |-> runs /\ ScriptCode(id) = "modbus_bit_example"
                                /\ IfTuple(wrote),
                did |-> IF runs /\ ScriptCode(id) = "user" THEN o.op
                        ELSE "none",
                pin |-> IF runs /\ ScriptCode(id) = "user" THEN o.pin ELSE 0,
                got |-> runs /\ ScriptCode(id) = "user" /\ o.op = "get_pin"
                             /\ get_pin(configured, o.pin)]
          /\ pin_states' = IF runs THEN CodePins(id, configured, o)
                           ELSE pin_states
          /\ lastset' =
               IF runs
               THEN CodeSets(id,
                             [q \in Pins |->
                                 IF q \in first
                                 THEN [touched |-> TRUE, value |-> FALSE]
                                 ELSE lastset[q]],
                             o)
               ELSE lastset
          /\ script_states' = IF runs
                              THEN [script_states EXCEPT ![id] = store]
                              ELSE script_states
          /\ stores' = IF runs THEN created ELSE stores
    /\ UNCHANGED <<platform, loopVars, clock, heap, commVars, espVars,
                   pollVars, inflight, handlerVars, scripts, deleting,
                   deleted, enabled_scripts, bpc, it, cur, results, ran,
                   atStart, batchNo, reqNo, batchBudget, reqBudget, execVars,
                   resume, auxVars>>

\* Number of polls and of registry requests explored next to the
\* executions.
GpioPolls == 1
GpioRequests == 2

\* The code of a default script takes no decision of its own.
CodeBehaviours(id) ==
    IF ScriptCode(id) = "user" THEN UserBehaviours
    ELSE {[op |-> "none", pin |-> PIN_TIMER, value |-> FALSE]}

\* Only modbus_bit_example writes to the PLC.
WriteOutcomes(id) ==
    IF ScriptCode(id) = "modbus_bit_example" THEN Outcomes ELSE {"ok"}

\* main.py 117 and web_server.py 366: the batch or a request executes a
\* script.
ExecuteScript ==
    \E id \in ScriptIds : \E o \in CodeBehaviours(id) :
        \E w \in WriteOutcomes(id) : execute_script_call(id, o, w)

NextGpio ==
    \/ Connect
    \/ poll_data_call
    \/ poll_data_return
    \/ \E id \in 1..NumDefaults : api_script_toggle(id)
    \/ api_script_create(NumDefaults + 1, TRUE)
    \/ ExecuteScript

\* The Pi bridge in simulation mode (config.py 39, the default) with its
\* script engine and executor, no physical GPIO.
InitGpio ==
    /\ InitOf(GpioPolls, 0, GpioRequests)
    /\ platform = "pi"
    /\ simulation_mode

SpecGpio == InitGpio /\ [][NextGpio]_vars

\* The last call was an execution of the script whose code is code, and
\* the script was enabled.
Executed(code) ==
    /\ gcall.op = "execute_script"
    /\ gcall.enabled
    /\ ScriptCode(gcall.id) = code

\* C31: executing the enabled gpio_output_example against a snapshot sets
\* pin 18 to the value of the mirrored input in that snapshot, and the
\* result returned for the execution reports pin 18's new state.
C31_MirrorSetsPin18 ==
    Executed("gpio_output_example") =>
        /\ get_pin(pin_states, PIN_OUTPUT) = gcall.saw
        /\ pin_states[PIN_OUTPUT].cfg
        /\ gcall.ret.kind = "returned"
        /\ gcall.ret.status = IF get_pin(pin_states, PIN_OUTPUT)
                              THEN "GPIO 18 ON - X001 active"
                              ELSE "GPIO 18 OFF - X001 inactive"

\* The mirror script ran on a polled snapshot whose X001 is true.
C31_Witness ==
    /\ Executed("gpio_output_example")
    /\ gcall.saw
    /\ pin_states[PIN_OUTPUT].value
    /\ pollNo > 0

\* C32: with no physical GPIO, get_pin of a pin returns the value of the
\* last set_pin on it (false after a setup_pin), whatever is done on other
\* pins and across polls and executions, a script's bound pins being
\* configured on its first execution only; get_pin of a pin never
\* configured returns false.
C32_PinKeepsLastValue ==
    /\ \A q \in Pins :
          get_pin(pin_states, q) = (lastset[q].touched /\ lastset[q].value)
    /\ (Executed("user") /\ gcall.did = "get_pin") =>
          gcall.got = (lastset[gcall.pin].touched /\ lastset[gcall.pin].value)

\* A script that is not the mirror script reads pin 18 as true after pin
\* 19 was set to true.
C32_Witness ==
    /\ Executed("user")
    /\ gcall.did = "get_pin"
    /\ gcall.pin = PIN_OUTPUT
    /\ gcall.got
    /\ lastset[PIN_TIMER].touched
    /\ lastset[PIN_TIMER].value

\* C36: the write_coil callback reports success to the script exactly
\* when the communicator's write succeeded: after a failed write the value
\* the callback returned is falsy and modbus_bit_example returns its error
\* result.
C36_CallbackFalsyOnFailure ==
    Executed("modbus_bit_example") =>
        /\ gcall.truthy <=> gcall.write.ok
        /\ ~gcall.write.ok =>
              (gcall.ret.error /\ gcall.ret.status = "Failed to write Y005")

(* --------------------- get_status, called twice (C33) ----------------- *)

\* plc_communication.py 254-262: one call of get_status, from its entry to
\* its return: the age fields are stored into the live plc_status, whose
\* top level is copied for the caller.
get_status ==
    /\ platform = "pi"
    /\ started
    /\ plc_status' = StatusWithAge
    /\ snaps' = [n |-> IF snaps.n < 2 THEN snaps.n + 1 ELSE 2,
                 prev |-> snaps.last,
                 last |-> [status |-> DeepOf(StatusWithAge, heap),
                           polls |-> pollNo,
                           quiet |-> pollpc \in {"idle", "returned"},
                           at |-> clock]]
    /\ UNCHANGED <<platform, loopVars, scriptVars, clock, heap, started,
                   simulation_mode, connected, client, connection_lock,
                   last_update, connret, espVars, gpioVars, twin, creating,
                   pollVars, inflight, handlerVars>>

\* Number of polls explored next to the calls of get_status.
StatusPolls == 1

NextStatus ==
    \/ Connect
    \/ poll_data_call
    \/ poll_data_acquire
    \/ poll_data_request
    \/ \E o \in Outcomes : poll_data_response(o)
    \/ poll_data_stamp
    \/ poll_data_return
    \/ Tick
    \/ get_status

\* The Pi bridge, its polling thread and a caller of get_status; the
\* connection is opened once and never closed.
InitStatus == InitOf(StatusPolls, 0, 0) /\ platform = "pi"

SpecStatus == InitStatus /\ [][NextStatus]_vars

\* The last two calls of get_status had no poll between them: no poll was
\* started between them and none was in progress at either.
NoPollBetween ==
    /\ snaps.n = 2
    /\ snaps.prev.polls = snaps.last.polls
    /\ snaps.prev.quiet
    /\ snaps.last.quiet

\* The two snapshots are equal in every field that is not in but.
SameExcept(but) ==
    /\ DOMAIN snaps.prev.status = DOMAIN snaps.last.status
    /\ \A f \in DOMAIN snaps.last.status \ but :
          snaps.prev.status[f] = snaps.last.status[f]

\* C33 as stated: two calls of get_status with no poll between them return
\* snapshots identical in every field except data_age_seconds, however
\* much time passes between the calls.
C33_IdenticalButAge == NoPollBetween => SameExcept({"data_age_seconds"})

\* C33: two calls of get_status with no poll, connect or disconnect
\* between them return snapshots identical in every field except
\* data_age_seconds and data_fresh, which both calls compute from the time
\* since the last successful poll.
C33_IdenticalButAgeAndFresh ==
    NoPollBetween => SameExcept({"data_age_seconds", "data_fresh"})

\* Two calls after the same successful poll, the second one when the data
\* is no longer fresh.
C33_Witness ==
    /\ NoPollBetween
    /\ snaps.last.polls > 0
    /\ snaps.prev.status.data_fresh = "True"
    /\ snaps.last.status.data_fresh = "False"
    /\ snaps.prev.at < snaps.last.at

(* ------------------- the count of errors (C34) ------------------------ *)

\* Number of polls explored next to the other operations.
ErrPolls == 1

\* The web client whose requests (a write, a status) are followed.
Client == 1

NextErrors ==
    \/ Connect
    \/ poll_data_call
    \/ poll_data_acquire
    \/ poll_data_request
    \/ \E o \in Outcomes : poll_data_response(o)
    \/ poll_data_stamp
    \/ poll_data_return
    \/ write_coil(Client)
    \/ write_register(Client)
    \/ write_acquire(Client)
    \/ write_response(Client)
    \/ disconnect
    \/ \E how \in ConnectOutcomes : connect_again(how)
    \/ get_status_age(Client)
    \/ get_status_copy(Client)
    \/ EspPoll
    \/ EspPollReturn

\* Either bridge, with its polling thread, a write handler, the callers of
\* get_status, and connect and disconnect called again.
InitErrors == InitOf(ErrPolls, 0, 0)

SpecErrors == InitErrors /\ [][NextErrors]_vars

\* C34: communication_errors never decreases: no step of connect, poll,
\* write, disconnect or get_status leaves it smaller than it was, so it is
\* at least its value in every earlier state.
C34_ErrorsNeverDecrease ==
    [][Live'.communication_errors >= Live.communication_errors]_vars

\* On the Pi a poll has failed and counted, and the connection was closed
\* and get_status called after it.
C34_Witness ==
    /\ platform = "pi"
    /\ plc_status.communication_errors > 0
    /\ client = "closed"
    /\ rpc[Client] = "has"
    /\ handed[Client].communication_errors > 0
    /\ ~handed[Client].connected

(* ------------------ two simulated communicators (C35) ----------------- *)

\* Number of simulated polls of each communicator.
SimPolls == 3

\* plc_communication.py 191-252: a simulated poll of the second
\* communicator: its counter is incremented and its groups are generated
\* from the counter and from its own draws of random.random().
twin_simulate_plc_data ==
    /\ platform = "pi"
    /\ twin.counter < SimPolls
    /\ \E r \in BOOLEAN :
          twin' = [counter |-> twin.counter + 1,
                   groups |-> [g \in Groups |->
                                  SimDict(g, twin.counter + 1, r)]]
    /\ UNCHANGED <<platform, loopVars, scriptVars, clock, heap, commVars,
                   espVars, gpioVars, snaps, creating, pollVars, inflight,
                   handlerVars>>

NextSim ==
    \/ Connect
    \/ poll_data_call
    \/ poll_data_return
    \/ twin_simulate_plc_data

\* Two communicators in simulation mode, each polled by its own thread.
InitSim ==
    /\ InitOf(SimPolls, 0, 0)
    /\ platform = "pi"
    /\ simulation_mode

SpecSim == InitSim /\ [][NextSim]_vars

\* C35: two communicators that have performed the same number of
\* simulated polls hold identical inputs, coils and registers, the values
\* a simulated poll generates being a function of the counter alone.
C35_SameCountSameData ==
    (pollpc = "idle" /\ pollNo = twin.counter) =>
        \A g \in Groups : heap[plc_status[g]] = twin.groups[g]

(* ------------------ exchanges after disconnect (C37) ------------------ *)

\* C37: no transport exchange is performed on a closed connection: once
\* disconnect has completed, no poll or write has an exchange in progress
\* on the client, whether its call started later or had passed its
\* connected check before the disconnect.
C37_NoExchangeWhenClosed == inflight # {} => client = "open"

(* --------------------- concurrent creates (C38) ----------------------- *)

\* Number of create requests explored.
CreateRequests == 2

\* web_server.py 268-285: a create request carrying the id and a
\* definition (here its enabled flag) is answered 400 when the id is in the
\* registry; otherwise the handler goes on to build the new definition.
api_script_create_check(h, id, enabled) ==
    /\ platform = "pi"
    /\ creating[h].pc = "idle"
    /\ reqNo < reqBudget
    /\ reqNo' = reqNo + 1
    /\ creating' = [creating EXCEPT ![h] =
                       [pc |-> IF Has(id) THEN "done" ELSE "insert",
                        id |-> id, enabled |-> enabled,
                        answer |-> IF Has(id) THEN 400 ELSE 0]]
    /\ UNCHANGED <<platform, loopVars, clock, heap, commVars, espVars,
                   gpioVars, snaps, twin, pollVars, inflight, handlerVars,
                   scripts, script_states, deleting, deleted,
                   otherScriptVars, resume>>

\* web_server.py 287-302: self.script_engine.scripts[script_id] =
\* new_script, a dictionary assignment: it adds the id at the end, or
\* replaces the definition of an id that is there, and the request is
\* answered with success.
api_script_create_insert(h) ==
    /\ creating[h].pc = "insert"
    /\ LET id == creating[h].id
           new_script == [id |-> id, live |-> TRUE,
                          enabled |-> creating[h].enabled]
       IN scripts' = IF Has(id)
                     THEN [scripts EXCEPT ![SlotOf(id)] = new_script]
                     ELSE Append(scripts, new_script)
    /\ creating' = [creating EXCEPT ![h].pc = "done", ![h].answer = 200]
    /\ UNCHANGED <<platform, loopVars, clock, heap, commVars, espVars,
                   gpioVars, snaps, twin, pollVars, inflight, handlerVars,
                   script_states, deleting, deleted, reqNo,
                   otherScriptVars, resume>>

NextCreate ==
    \/ \E h \in Handlers : \E id \in ScriptIds : \E enabled \in BOOLEAN :
          api_script_create_check(h, id, enabled)
    \/ \E h \in Handlers : api_script_create_insert(h)

\* The Pi web server, each of its threads serving one create request.
InitCreate == InitOf(0, 0, CreateRequests) /\ platform = "pi"

SpecCreate == InitCreate /\ [][NextCreate]_vars

\* The create request of handler h was answered with success.
Created(h) == creating[h].pc = "done" /\ creating[h].answer = 200

\* C38: create never overwrites: a create request for an id in the
\* registry is rejected, of two concurrent create requests carrying the
\* same new id at most one reports success, and the stored definition is
\* that of the successful request.
C38_CreateNeverOverwrites ==
    /\ \A h \in Handlers :
          Created(h) =>
              /\ Has(creating[h].id)
              /\ scripts[SlotOf(creating[h].id)].enabled = creating[h].enabled
    /\ \A h1, h2 \in Handlers :
          (h1 # h2 /\ Created(h1) /\ Created(h2)) =>
              creating[h1].id # creating[h2].id

(* ------------- the execution set of the ESP engine (C40) -------------- *)

\* Number of polls and of enable/disable calls explored.
EnginePolls == 1
EngineRequests == 2

\* custom_scripts.py (ESP) 219-223, 227-231: what enable_script and
\* disable_script return: whether the id is in the registry.
enable_script_returns(id) == Has(id)

NextEngine ==
    \/ \E id \in ScriptIds : enable_script(id)
    \/ \E id \in ScriptIds : disable_script(id)
    \/ EspPoll
    \/ EspPollReturn

\* The ESP bridge: its engine as constructed, the scripts enabled and
\* disabled by calls and executed after each poll.
InitEngine ==
    /\ InitOf(EnginePolls, 0, EngineRequests)
    /\ platform = "esp"
    /\ script_engine

SpecEngine == InitEngine /\ [][NextEngine]_vars

\* The ids of the registered scripts whose definition has enabled = true.
FlaggedIds == {scripts[i].id : i \in {j \in LiveSlots : scripts[j].enabled}}

\* C40: after construction and after any sequence of enable_script and
\* disable_script calls, enabled_scripts contains exactly the ids of the
\* registered scripts whose definition has enabled = true; a call on an
\* unknown id returns false and changes neither the set nor a definition.
C40_SetAgreesWithFlags ==
    /\ [](enabled_scripts = FlaggedIds)
    /\ [][\A id \in ScriptIds :
            ((enable_script(id) \/ disable_script(id)) /\ ~Has(id)) =>
                /\ ~enable_script_returns(id)
                /\ UNCHANGED <<scripts, enabled_scripts>>]_vars

\* The default that was enabled has been disabled and another script
\* enabled, and a batch has run.
C40_Witness ==
    /\ platform = "esp"
    /\ reqNo = EngineRequests
    /\ enabled_scripts # {}
    /\ \A i \in 1..NumDefaults :
          EspDefaultScripts[i].enabled => EspDefaultScripts[i].id \notin enabled_scripts
    /\ batchNo > 0

(* ---------------------- disabled scripts (C39) ------------------------ *)

NextDisabled ==
    \/ \E id \in 1..NumDefaults : api_script_toggle(id)
    \/ ExecuteScript
    \/ NextEngine

\* Either bridge with the scripts it is constructed with: the Pi before
\* its first poll, in simulation mode, and the ESP with its engine.
InitDisabled ==
    /\ InitOf(EnginePolls, 0, EngineRequests)
    /\ platform = "pi" => simulation_mode
    /\ platform = "esp" => script_engine

SpecDisabled == InitDisabled /\ [][NextDisabled]_vars

\* A call of execute_script for id, on the Pi.
ExecuteScriptOf(id) ==
    \E o \in CodeBehaviours(id) : \E w \in WriteOutcomes(id) :
        execute_script_call(id, o, w)

\* C39: a disabled script is never executed.  On the Pi a call of
\* execute_script for a script whose enabled flag is false returns the
\* 'disabled' result and leaves the script's runtime state, every pin
\* state and the PLC unchanged; on the ESP the batch executes only scripts
\* whose flag is true.
C39_DisabledNeverExecuted ==
    /\ [][\A id \in ScriptIds :
            (platform = "pi" /\ Has(id) /\ ~Enabled(id)
                              /\ ExecuteScriptOf(id)) =>
                /\ gcall'.ret.kind = "disabled"
                /\ ~gcall'.enabled
                /\ UNCHANGED <<pin_states, lastset, script_states, stores,
                               inflight, heap, plc_status>>]_vars
    /\ [][(platform = "esp" /\ batchNo' # batchNo) =>
              DOMAIN results' \subseteq FlaggedIds]_vars

\* On the Pi a script that had run was disabled and a call for it
\* returned the 'disabled' result, its pin and its state being kept.
C39_Witness ==
    /\ platform = "pi"
    /\ gcall.op = "execute_script"
    /\ gcall.id = 1
    /\ gcall.ret.kind = "disabled"
    /\ pin_states[PIN_OUTPUT].cfg
    /\ script_states[1] # 0

====
